---- MODULE Spec2Model ----
(***************************************************************************)
(* State-machine model of the agent orchestrator:                          *)
(*   - the session scheduler of AgentManager (src/src/agent/manager.py),   *)
(*   - the MCP adapter, tool mapper and call translator                    *)
(*     (src/src/adapters/...),                                             *)
(*   - session creation in AgentManager.create_session,                    *)
(*   - the global sampling gateway (src/src/mcp/sampling.py).              *)
(* The program runs on one asyncio event loop: every action below is the   *)
(* code between two suspension points of one task, so actions of           *)
(* different tasks interleave only at awaits.                              *)
(***************************************************************************)
EXTENDS Integers, Sequences, FiniteSets, TLC

\* ------------------------------------------------------------------ bounds
MaxSends == 2          \* send_message calls in a run
MaxCalls == 1          \* tool calls the model emits in a run
MaxCaps == 1           \* capability updates that change the catalog
MaxChunks == 1         \* chunks of one streamed response
NumSamples == 3        \* sample() calls in a run
max_concurrency == 2   \* SessionAwareSamplingHandler(max_concurrency=...)
NumCallers == 2        \* tasks that call create_session
MaxBundles == 2        \* agent/adapter/client bundles built in a run
MaxStreamChunks == 2   \* chunks the model streams in one response
MaxHistory == 3        \* entries of the agent history
MaxGens == 1           \* response generations in a run
MaxText == 3           \* length of a text handed to StreamBuffer.get_delta
MaxRequests == 3       \* tool calls in one payload of the model
MaxKeys == 2           \* tools in one list handed to MCPToolMapper.update
MaxArgs == 2           \* items of a mapping handed over as tool arguments
MaxRefreshes == 2      \* _refresh_capabilities calls in a run
MaxChunkCalls == 2     \* tool calls in one chunk of a streamed response

None == "None"
NoSummary == [header |-> None, current |-> <<>>, removed |-> <<>>]
NoTurn == [id |-> 0, entries |-> <<>>]
NoEntry == [kind |-> None, ref |-> {}, text |-> FALSE, role |-> None]

\* ----------------------------------------------------------------- helpers
Range(s) == {s[i] : i \in 1..Len(s)}

RECURSIVE SeqFilterKeys(_, _)
\* keys of seq s not in `drop`, first occurrence order (dict insertion order)
SeqFilterKeys(s, seen) ==
    IF s = <<>> THEN <<>>
    ELSE IF Head(s) = "" \/ Head(s) \in seen
         THEN SeqFilterKeys(Tail(s), seen)
         ELSE <<Head(s)>> \o SeqFilterKeys(Tail(s), seen \cup {Head(s)})

SelectKeys(s, keep) == SelectSeq(s, LAMBDA k : k \in keep)

\* --------------------------------------------------------------- variables
VARIABLES
    \* AgentSession (manager.py:24-38)
    message_queue,     \* asyncio.Queue of turns, each [id, entries]
    pending_turn,      \* list of entries
    active,            \* session.active
    in_sessions,       \* session key present in AgentManager.sessions
    \* the worker task _run_agent_loop / _process_turn
    wpc,               \* "get" | "generate" | "dispatch" | "sleep" | "closed"
    turn,              \* the turn being processed ([id, entries]) or NoTurn
    requests,          \* JSON-RPC requests of the current chunk still to dispatch
    chunks_left,       \* chunks the model may still emit in this response
    stream_enabled,    \* agent.config.stream_enabled
    epc,               \* end_session: "idle" | "awaiting" | "teardown" | "done"
    \* adapter / tool mapper / call translator / agent tool specs
    tools_by_name, prompts_by_name, resources_by_uri,
    provider_tools,    \* MCPToolMapper._provider_tools
    name_index,        \* OllamaCallTranslator._ollama_name_index (name -> kind)
    active_tools,      \* BaseAgent._active_tools
    last_catalog,      \* the catalog last passed to update_capabilities
    initial_refresh,   \* the MCP client loop's first _refresh_capabilities has run
    \* history of the run (observations, not program state)
    n_sent, n_caps, n_calls, next_turn_id, n_started,
    last_turn,         \* the last turn _process_turn returned from:
                       \*   [id, completions (on_agent_completion firings),
                       \*    failed (an exception ended it)]
    calls,             \* the tool calls emitted in the current or last turn:
                       \*   [cid, next (id of the next turn to be enqueued),
                       \*    dispatched (times sent to execute_json_rpc)]
    owed,              \* summaries appended since the worker last dequeued
    missed,            \* summaries absent from the turn dequeued after them
    \* SessionAwareSamplingHandler (sampling.py:31-46) and its callers
    sem,               \* permits left in _global_sem
    inflight, completed, rejected,   \* _inflight, _completed, _rejected
    spc,               \* per sample() call: "new" | "waiting" | "calling" |
                       \*   "abandoned" | "rejected" | "ok" | "timeout" |
                       \*   "error" | "cancelled"
    skey,              \* per sample() call: its session key
    sess,              \* per session key: "active" | "inactive" | "absent"
    \* AgentManager.sessions and the create_session calls in progress
    sessions,          \* the dict, as a set of <<key, session id>>
    cpc,               \* per caller: "idle" | "init" | "returned" | "raised"
    ccall,             \* per caller: [key, sid, existed, existing, returned, created]
    bundles,           \* ids of the agent/adapter/MCP client bundles built
    workers,           \* ids of the sessions whose worker task is running
    ending,            \* end_session calls in progress, as <<key, session id>>
    shut,              \* AgentManager.shutdown: [pc, snapshot, todo, running,
                       \*   ended, failed]; pc is "idle" | "gathering" |
                       \*   "returned" | "raised"
    sbad,              \* per call: its session was not active on entry, or its
                       \*   request held a message without text content
    sret,              \* per call: what sample() gave its caller
    \* MCPClient (client.py:37-62)
    cl_init,           \* MCPClient.initialize: "idle" | "waiting" | "true" | "false"
    cl_session,        \* self.session is set
    cl_loop,           \* _run_client_loop: "none" | "connecting" | "refreshing" |
                       \*   "waiting" | "exited"
    cl_connected, cl_done, cl_closed,   \* the three asyncio.Event flags
    cl_changed,        \* _tool_list_changed, _resource_list_changed,
                       \*   _prompt_list_changed
    cl_rpc,            \* what the last execute_json_rpc call gave its caller
    \* BaseAgent / OllamaAgent (base.py:34-38) and one response generation
    history,           \* list of messages [role, content]
    system_prompt_template,
    prompt_set,        \* set_system_prompt was called with a non-empty text
    gpc,               \* generation: "idle" | "calling" | "streaming" |
                       \*   "done" | "failed"
    g_stream,          \* the generation is generate_response (streaming)
    accumulated_content, accumulated_thinking,   \* locals of generate_response
    content_buffer, thinking_buffer, last_thinking,   \* locals of
                       \*   _handle_streaming_response
    cb_response,       \* on_agent_response: [fired, arg, emitted (the deltas
                       \*   the agent had yielded when it last fired)]
    cb_thinking,       \* on_agent_thinking: [fired, arg, emitted]
    cb_completion,     \* on_agent_completion: [fired, thinking, content]
    hist_before,       \* the history when the generation was called
    n_chunks, n_gens,
    thinking_enabled,  \* AgentConfig.thinking_enabled (base.py:20)
    \* StreamBuffer (stream_buffer.py:17), one (user, chat, channel) key
    sb_buffer,         \* _buffers at the key: [present, text]
    sb_ret,            \* the last get_delta call: [called, delta, first,
                       \*   content, shorter (than the buffer it met)]
    sb_mono,           \* every call since the buffer was absent extended
                       \*   the call before it
    sb_sum,            \* the non-null deltas returned since then, joined
    \* _execute_single_request (manager.py:262-276), step by step
    d_step,            \* steps of request_steps done for Head(requests)
    d_handled,         \* a tool payload has been handed to the handler
    d_log,             \* what happened, in order: [ev, call]
    d_done,            \* _process_turn's finally clause has run for the payload
    d_payload,         \* the tool payload handed to the handler
    d_catalog,         \* the catalog the translator held when it was handed over
    d_requests,        \* the requests adapt_model_call_to_mcp returned for it
    \* MCPToolMapper.update (tool_mapper.py:29-53), call by call
    m_args,            \* <<the lists of the last call>>, <<>> before any
    m_ret,             \* what the last call returned
    m_before,          \* _provider_tools when the last call began
    m_same,            \* the last call repeated the lists of the call before
    m_changed,         \* the kinds (tools, prompts, resources) whose keys the
                       \*   last call added or removed
    \* OllamaCallTranslator._ensure_arguments_dict applied and re-applied
    a_step,            \* 0: not applied, 1: applied once, 2: applied twice
    a_in,              \* the arguments value handed in
    a_once,            \* the result of the first application
    a_twice,           \* the result of applying it to a_once
    \* MCPClient._refresh_capabilities (client.py:166-193), await by await
    rf_pc,             \* "idle", the list being fetched, or "handler"
    rf_round,          \* refreshes begun
    rf_start,          \* the dirty flags when the refresh in hand began
    rf_fetched,        \* the lists it has fetched
    rf_cleared,        \* the flags it has cleared
    rf_late,           \* the lists notified since their last fetch began
    cl_cache,          \* _tools_cache, _resources_cache, _prompts_cache: the
                       \*   refresh that fetched each (0: the empty list of __init__)
    \* OllamaAgent.generate_response (ollama_agent.py:114-155): the tool
    \* calls of one streamed response
    tc_pc,             \* "idle", "streaming", "done"
    seen_call_keys,    \* the keys of the calls seen so far
    collected_calls,   \* the calls kept for the assistant message
    tc_chunks,         \* chunks received from the model
    tc_offered,        \* the calls the model has sent
    tc_repeated,       \* those it sent when their key had been seen
    tc_yielded,        \* the new_calls yielded to the caller, in order
    tc_message         \* the tool_calls of the assistant message appended

schedVars == <<message_queue, pending_turn, active, in_sessions, wpc, turn,
               requests, chunks_left, stream_enabled, epc,
               n_sent, n_calls, next_turn_id, n_started, last_turn,
               calls, owed, missed>>
capVars == <<tools_by_name, prompts_by_name, resources_by_uri, provider_tools,
             name_index, active_tools, last_catalog, initial_refresh, n_caps>>
obsVars == <<last_turn, calls, owed, missed>>
sampVars == <<sem, inflight, completed, rejected, spc, skey, sess, sbad, sret>>
mgrVars == <<sessions, cpc, ccall, bundles, workers, ending, shut>>
cliVars == <<cl_session, cl_loop, cl_connected, cl_done, cl_closed,
             cl_changed, cl_rpc, cl_init>>
agVars == <<thinking_enabled,
            history, system_prompt_template, prompt_set, gpc, g_stream,
            accumulated_content, accumulated_thinking, content_buffer,
            thinking_buffer, last_thinking, cb_response, cb_thinking,
            cb_completion, hist_before, n_chunks, n_gens>>
bufVars == <<sb_buffer, sb_ret, sb_mono, sb_sum>>
dispVars == <<d_step, d_handled, d_log, d_done, d_payload, d_catalog,
             d_requests>>
mapVars == <<m_args, m_ret, m_before, m_same, m_changed>>
argVars == <<a_step, a_in, a_once, a_twice>>
refVars == <<rf_pc, rf_round, rf_start, rf_fetched, rf_cleared, rf_late,
            cl_cache>>
tcVars == <<tc_pc, seen_call_keys, collected_calls, tc_chunks, tc_offered,
           tc_repeated, tc_yielded, tc_message>>
moreVars == <<tcVars>>
unitVars == <<dispVars, mapVars, argVars, refVars, moreVars>>
extVars == <<cliVars, agVars, bufVars, unitVars>>
vars == <<schedVars, capVars, sampVars, mgrVars, extVars>>

\* ------------------------------------------------------ capability catalog
\* A catalog as the MCP client hands it to on_capabilities_changed: three
\* lists of keys (tool names, prompt names, resource URIs). A key may be
\* empty or repeated in a list.
NoCatalog == [tools |-> <<>>, prompts |-> <<>>, resources |-> <<>>]

Catalogs ==
    { NoCatalog,
      [tools |-> <<"echo">>, prompts |-> <<>>, resources |-> <<>>],
      [tools |-> <<"echo">>, prompts |-> <<>>, resources |-> <<"file://a.md">>] }

merge_entries_aliased(previous, incoming) ==
    LET current == SeqFilterKeys(incoming, {}) IN
    [ current   |-> current,
      added     |-> current,
      removed   |-> <<>>,
      unchanged |-> <<>> ]

\* MCPToolMapper._merge_entries: replace the index by the incoming keys
\* (empty keys skipped, a repeated key keeps its first position) and diff
\* against the previous keys.
merge_entries(previous, incoming) ==
    LET current == SeqFilterKeys(incoming, {}) IN
    [ current   |-> current,
      added     |-> SelectKeys(current, Range(current) \ Range(previous)),
      removed   |-> SelectKeys(previous, Range(previous) \ Range(current)),
      unchanged |-> SelectKeys(current, Range(previous)) ]

\* OllamaToolMapper._build_provider_tools: one function spec per tool, then
\* one per resource (named by its URI); prompts are not surfaced.
build_provider_tools(tools, resources) ==
    [i \in 1..Len(tools) |-> [type |-> "function", name |-> tools[i], of |-> "tool"]]
    \o [i \in 1..Len(resources) |->
            [type |-> "function", name |-> resources[i], of |-> "resource"]]

\* OllamaToolMapper._format_capability_update: None (NoSummary) when
\* nothing was added or removed among tools and resources, else the
\* summary text.
format_capability_update(tool_change, prompt_change, resource_change) ==
    LET combined_added == tool_change.added \o resource_change.added
        combined_removed == tool_change.removed \o resource_change.removed
    IN IF combined_added = <<>> /\ combined_removed = <<>>
       THEN NoSummary
       ELSE [ header  |-> "The list of available tools has been updated.",
              current |-> tool_change.current \o resource_change.current,
              removed |-> combined_removed ]

\* MCPToolMapper.update
tool_mapper_update(cat) ==
    LET tc == merge_entries(tools_by_name, cat.tools)
        pc == merge_entries(prompts_by_name, cat.prompts)
        rc == merge_entries(resources_by_uri, cat.resources)
    IN [ tools          |-> tc.current,
         prompts        |-> pc.current,
         resources      |-> rc.current,
         provider_tools |-> build_provider_tools(tc.current, rc.current),
         summary        |-> format_capability_update(tc, pc, rc) ]

\* OllamaCallTranslator.update_capabilities: name -> kind; a resource URI
\* equal to a tool name overwrites the tool's entry.
translator_update(cat) ==
    LET tk == Range(cat.tools) \ {""}
        rk == Range(cat.resources) \ {""}
    IN [n \in tk \cup rk |-> IF n \in rk THEN "resource" ELSE "tool"]

\* MCPAdapter.to_backend_tools, evaluated on a tool mapper state
to_backend_tools(mapper_tools) == mapper_tools

handler_set_active_tools_stale(new_provider_tools) == active_tools

\* capability_handler, line 129: agent.set_active_tools(adapter.to_backend_tools())
handler_set_active_tools(new_provider_tools) ==
    to_backend_tools(new_provider_tools)

\* The effect of capability_handler on adapter and agent.
ApplyCapabilities(cat) ==
    LET u == tool_mapper_update(cat) IN
    /\ tools_by_name' = u.tools
    /\ prompts_by_name' = u.prompts
    /\ resources_by_uri' = u.resources
    /\ provider_tools' = u.provider_tools
    /\ name_index' = translator_update(cat)
    /\ active_tools' = handler_set_active_tools(u.provider_tools)
    /\ last_catalog' = cat
    /\ n_caps' = IF u.summary = NoSummary THEN n_caps ELSE n_caps + 1

\* A catalog the MCP client may deliver now: the one it delivered last, or
\* (while the run's budget of changes lasts) any other.
Deliverable(cat) ==
    cat \in Catalogs /\ (tool_mapper_update(cat).summary # NoSummary => n_caps < MaxCaps)

\* ------------------------------------------------------------ turn entries
UserEntry(n)    == [kind |-> "user",    ref |-> {n}, text |-> TRUE, role |-> "user"]
SummaryEntry(n) == [kind |-> "summary", ref |-> {n}, text |-> TRUE, role |-> "tool"]
MapErrEntry(cs) == [kind |-> "maperr",  ref |-> cs,  text |-> TRUE, role |-> "tool"]
ResultEntry(c, t) == [kind |-> "result", ref |-> {c}, text |-> t,   role |-> "tool"]

\* capability_handler, lines 130-131: the summary rides on pending_turn
handler_pending(cat, pending) ==
    IF tool_mapper_update(cat).summary # NoSummary
    THEN Append(pending, SummaryEntry(n_caps + 1))
    ELSE pending

\* --------------------------------------------------------- call translator
\* A tool call of the model: function.name and arguments.get("uri").
CallShapes ==
    { [name |-> "echo", uri |-> None],
      [name |-> "ech",  uri |-> None],
      [name |-> "read", uri |-> "file://a.md"] }

Failed == [method |-> "failed"]

make_rpc_keeps_arguments(kind, key, rpc_id, cid) ==
    [id |-> rpc_id, method |-> IF kind = "tool" THEN "tools/call" ELSE "resources/read",
     key |-> key, args |-> TRUE, call |-> cid]

\* OllamaCallTranslator._make_rpc
make_rpc(kind, key, rpc_id, cid) ==
    IF kind = "tool"
    THEN [id |-> rpc_id, method |-> "tools/call", key |-> key, args |-> TRUE, call |-> cid]
    ELSE [id |-> rpc_id, method |-> "resources/read", key |-> key, args |-> FALSE, call |-> cid]

\* OllamaCallTranslator.to_json_rpc (Failed stands for the raised ValueError)
to_json_rpc(tool_call, rpc_id) ==
    IF tool_call.name = "" THEN Failed
    ELSE IF tool_call.name \in DOMAIN name_index
    THEN make_rpc(name_index[tool_call.name], tool_call.name, rpc_id, tool_call.cid)
    ELSE IF /\ tool_call.uri # None
            /\ tool_call.uri \in DOMAIN name_index
            /\ name_index[tool_call.uri] = "resource"
    THEN make_rpc("resource", tool_call.uri, rpc_id, tool_call.cid)
    ELSE Failed

adapt_model_call_to_mcp_no_error(payload) ==
    LET idx == [i \in 1..Len(payload) |-> i]
        ok  == SelectSeq(idx, LAMBDA i : to_json_rpc(payload[i], i) # Failed)
    IN [ requests      |-> [k \in 1..Len(ok) |-> to_json_rpc(payload[ok[k]], ok[k])],
         mapping_error |-> NoEntry ]

\* MCPAdapter.adapt_model_call_to_mcp: one request per call that translates,
\* in order, with rpc ids 1..n by position; one composite error naming the
\* calls that did not.
adapt_model_call_to_mcp(payload) ==
    LET idx == [i \in 1..Len(payload) |-> i]
        ok  == SelectSeq(idx, LAMBDA i : to_json_rpc(payload[i], i) # Failed)
        bad == {payload[i].cid : i \in {j \in 1..Len(payload) :
                                          to_json_rpc(payload[j], j) = Failed}}
    IN [ requests      |-> [k \in 1..Len(ok) |-> to_json_rpc(payload[ok[k]], ok[k])],
         mapping_error |-> IF bad = {} THEN NoEntry ELSE MapErrEntry(bad) ]


\* ---------------------------------------------------------------- scheduler
RemoveAt(q, i) == SubSeq(q, 1, i - 1) \o SubSeq(q, i + 1, Len(q))

queue_get_newest(q) == Len(q)

\* asyncio.Queue.get as used by _run_agent_loop: the position of the item
\* handed to the worker (the oldest)
queue_get(q) == 1

enqueue_turn_aliased(pending, queue) ==
    IF pending = <<>>
    THEN [put |-> FALSE, queue |-> queue, pending |-> pending]
    ELSE LET cleared == <<>> IN
         [ put     |-> TRUE,
           queue   |-> Append(queue, [id |-> next_turn_id, entries |-> cleared]),
           pending |-> cleared ]

\* AgentManager._enqueue_turn: nothing on an empty pending_turn; else a copy
\* of pending_turn is put on the queue and pending_turn is cleared
enqueue_turn(pending, queue) ==
    IF pending = <<>>
    THEN [put |-> FALSE, queue |-> queue, pending |-> pending]
    ELSE LET entries == pending IN
         [ put     |-> TRUE,
           queue   |-> Append(queue, [id |-> next_turn_id, entries |-> entries]),
           pending |-> <<>> ]

\* the outcome r of _enqueue_turn applied to the session; turns are
\* numbered as they are put
CommitWith(r) ==
    /\ message_queue' = r.queue
    /\ pending_turn' = r.pending
    /\ next_turn_id' = IF r.put THEN next_turn_id + 1 ELSE next_turn_id

Commit(pending, queue) == CommitWith(enqueue_turn(pending, queue))

process_turn_finally_skipped(pending, queue) ==
    [put |-> FALSE, queue |-> queue, pending |-> pending]

process_turn_finally_always(pending, queue) ==
    [ put     |-> TRUE,
      queue   |-> Append(queue, [id |-> next_turn_id, entries |-> pending]),
      pending |-> <<>> ]

\* _process_turn, lines 188-189: finally: await self._enqueue_turn(session)
process_turn_finally(pending, queue) == enqueue_turn(pending, queue)

loop_except_dies(is_active) == "closed"

\* _run_agent_loop, lines 159-161: except Exception: log, sleep(0.1)
loop_except(is_active) == "sleep"

loop_forever == "get"

\* _run_agent_loop, line 152: the while condition
loop_check == IF active THEN "get" ELSE "closed"

\* _prepare_turn_messages: the entries that yield a provider message (a user
\* text, a non-empty string, a result with text content)
prepare_turn_messages(entries) == SelectSeq(entries, LAMBDA e : e.text)

\* the summaries carried by a sequence of entries
SummaryRefs(entries) ==
    UNION {entries[i].ref : i \in {j \in 1..Len(entries) : entries[j].kind = "summary"}}

\* AgentManager.send_message
send_message ==
    /\ in_sessions
    /\ n_sent < MaxSends
    /\ n_sent' = n_sent + 1
    /\ Commit(Append(pending_turn, UserEntry(n_sent + 1)), message_queue)
    /\ UNCHANGED <<active, in_sessions, wpc, turn, requests, chunks_left,
                   stream_enabled, epc, n_calls, n_started, obsVars, capVars>>

\* a capability change that produced a summary is owed to the next turn
note_owed(cat) ==
    IF tool_mapper_update(cat).summary # NoSummary
    THEN owed \cup {n_caps + 1}
    ELSE owed

\* MCPClient._run_client_loop, line 153: the first _refresh_capabilities of
\* the connection task calls capability_handler some time after
\* create_session has returned
initial_capabilities(cat) ==
    /\ ~initial_refresh
    /\ epc # "done"
    /\ Deliverable(cat)
    /\ initial_refresh' = TRUE
    /\ ApplyCapabilities(cat)
    /\ pending_turn' = handler_pending(cat, pending_turn)
    /\ owed' = note_owed(cat)
    /\ UNCHANGED <<message_queue, active, in_sessions, wpc, turn, requests,
                   chunks_left, stream_enabled, epc, n_sent, n_calls,
                   next_turn_id, n_started, last_turn, calls, missed>>

\* _run_agent_loop, lines 154-156 with _process_turn up to the model call:
\* dequeue, clear pending_turn, build the provider messages
worker_get ==
    /\ wpc = "get"
    /\ message_queue # <<>>
    /\ LET i == queue_get(message_queue)
           t == message_queue[i]
       IN /\ message_queue' = RemoveAt(message_queue, i)
          /\ pending_turn' = <<>>
          /\ n_started' = n_started + 1
          /\ calls' = <<>>
          /\ owed' = {}
          /\ missed' = [absent |-> owed \ SummaryRefs(t.entries),
                        not_first |-> owed # {} /\
                            ~(t.entries # <<>> /\ t.entries[1].kind = "summary"
                              /\ t.entries[1].ref \subseteq owed)]
          /\ IF t.entries = <<>> \/ prepare_turn_messages(t.entries) = <<>>
             THEN /\ turn' = NoTurn
                  /\ last_turn' = [id |-> t.id, completions |-> 0, failed |-> FALSE]
                  /\ wpc' = loop_check
                  /\ UNCHANGED chunks_left
             ELSE /\ turn' = t
                  /\ wpc' = "generate"
                  /\ chunks_left' = IF stream_enabled THEN MaxChunks ELSE 1
                  /\ UNCHANGED last_turn
    /\ UNCHANGED <<active, in_sessions, requests, stream_enabled, epc, n_sent,
                   n_calls, next_turn_id, capVars>>

\* _run_agent_loop, lines 154-156 and 159-161: a turn with tool-role entries
\* is dequeued, pending_turn is cleared, and _prepare_turn_messages raises
\* before it suspends; the loop's except clause logs and sleeps
prepare_error ==
    /\ wpc = "get"
    /\ message_queue # <<>>
    /\ LET i == queue_get(message_queue)
           t == message_queue[i]
       IN /\ \E j \in 1..Len(t.entries) : t.entries[j].role = "tool"
          /\ message_queue' = RemoveAt(message_queue, i)
          /\ pending_turn' = <<>>
          /\ n_started' = n_started + 1
          /\ calls' = <<>>
          /\ owed' = {}
          /\ missed' = [absent |-> owed \ SummaryRefs(t.entries),
                        not_first |-> owed # {} /\
                            ~(t.entries # <<>> /\ t.entries[1].kind = "summary"
                              /\ t.entries[1].ref \subseteq owed)]
          /\ last_turn' = [id |-> t.id, completions |-> 0, failed |-> TRUE]
    /\ turn' = NoTurn
    /\ wpc' = loop_except(active)
    /\ UNCHANGED <<active, in_sessions, requests, chunks_left, stream_enabled,
                   epc, n_sent, n_calls, next_turn_id, capVars>>

\* _run_agent_loop, line 161 and 152: the sleep is over, the while condition
worker_wake ==
    /\ wpc = "sleep"
    /\ wpc' = loop_check
    /\ UNCHANGED <<message_queue, pending_turn, active, in_sessions, turn,
                   requests, chunks_left, stream_enabled, epc, n_sent, n_calls,
                   next_turn_id, n_started, last_turn, calls, owed, missed,
                   capVars>>

\* _run_agent_loop, lines 157-158: the dequeue timed out and the session has
\* been deactivated
worker_timeout ==
    /\ wpc = "get"
    /\ message_queue = <<>>
    /\ ~active
    /\ wpc' = loop_check
    /\ UNCHANGED <<message_queue, pending_turn, active, in_sessions, turn,
                   requests, chunks_left, stream_enabled, epc, n_sent, n_calls,
                   next_turn_id, n_started, obsVars, capVars>>

\* The tool payloads the model may emit now, each call numbered
Payloads ==
    { <<>> } \cup
    { <<[name |-> c.name, uri |-> c.uri, cid |-> n_calls + 1]>> :
        c \in {x \in CallShapes : n_calls + 1 <= MaxCalls} } \cup
    { <<[name |-> y[1].name, uri |-> y[1].uri, cid |-> n_calls + 1],
        [name |-> y[2].name, uri |-> y[2].uri, cid |-> n_calls + 2]>> :
        y \in {z \in CallShapes \X CallShapes : n_calls + 2 <= MaxCalls} }

\* lines 213-218 and 245-248: translate the payload, put the mapping error
\* on pending_turn, keep the requests for dispatch
HandleToolPayload(payload) ==
    LET r == adapt_model_call_to_mcp(payload) IN
    /\ pending_turn' = IF r.mapping_error # NoEntry
                       THEN Append(pending_turn, r.mapping_error)
                       ELSE pending_turn
    /\ requests' = r.requests
    /\ wpc' = IF r.requests # <<>> THEN "dispatch" ELSE "generate"
    /\ n_calls' = n_calls + Len(payload)
    /\ calls' = calls \o [i \in 1..Len(payload) |->
                            [cid |-> payload[i].cid, next |-> next_turn_id,
                             dispatched |-> 0]]

\* _handle_streaming_response, lines 201-218: one chunk of the stream
stream_chunk(payload) ==
    /\ wpc = "generate"
    /\ stream_enabled
    /\ chunks_left > 0
    /\ payload \in Payloads
    /\ chunks_left' = chunks_left - 1
    /\ HandleToolPayload(payload)
    /\ UNCHANGED <<message_queue, active, in_sessions, turn, stream_enabled,
                   epc, n_sent, next_turn_id, n_started, last_turn, owed,
                   missed, capVars>>

\* _handle_sync_response, lines 236-248: the whole response at once
sync_response(payload) ==
    /\ wpc = "generate"
    /\ ~stream_enabled
    /\ chunks_left = 1
    /\ payload \in Payloads
    /\ chunks_left' = 0
    /\ HandleToolPayload(payload)
    /\ UNCHANGED <<message_queue, active, in_sessions, turn, stream_enabled,
                   epc, n_sent, next_turn_id, n_started, last_turn, owed,
                   missed, capVars>>

\* lines 219-220 and 250-251: `for request in requests`, the requests still
\* to run when the first of reqs has been executed
remaining_requests(reqs) == Tail(reqs)

\* _execute_single_request (lines 262-276) with MCPClient.execute_json_rpc:
\* the request is sent, the reply arrives, the capability refresh calls
\* capability_handler, and the result is appended to pending_turn
dispatch_request(cat, has_text) ==
    /\ wpc = "dispatch"
    /\ Deliverable(cat)
    /\ LET req == Head(requests) IN
       /\ calls' = [i \in 1..Len(calls) |->
                      IF calls[i].cid = req.call
                      THEN [calls[i] EXCEPT !.dispatched = @ + 1]
                      ELSE calls[i]]
       /\ pending_turn' = Append(handler_pending(cat, pending_turn),
                                 ResultEntry(req.call, has_text))
    /\ ApplyCapabilities(cat)
    /\ owed' = note_owed(cat)
    /\ requests' = remaining_requests(requests)
    /\ wpc' = IF requests' = <<>> THEN "generate" ELSE "dispatch"
    /\ UNCHANGED <<message_queue, active, in_sessions, turn, chunks_left,
                   stream_enabled, epc, n_sent, n_calls, next_turn_id,
                   n_started, last_turn, missed, initial_refresh>>

\* _process_turn, lines 188-189, and the return to the loop
FinishTurn(fired) ==
    /\ CommitWith(process_turn_finally(pending_turn, message_queue))
    /\ last_turn' = [id |-> turn.id, completions |-> fired,
                     failed |-> fired = 0]
    /\ turn' = NoTurn
    /\ requests' = <<>>
    /\ wpc' = loop_check

\* lines 222-230 and 253-260: the response is complete, on_agent_completion
\* is fired, then the commit step
complete_turn ==
    /\ wpc = "generate"
    /\ stream_enabled \/ chunks_left = 0
    /\ FinishTurn(1)
    /\ UNCHANGED <<active, in_sessions, chunks_left, stream_enabled, epc,
                   n_sent, n_calls, n_started, calls, owed, missed, capVars>>

\* _process_turn, lines 181-187: the model call or the stream raised
model_error ==
    /\ wpc = "generate"
    /\ stream_enabled \/ chunks_left = 1
    /\ FinishTurn(0)
    /\ UNCHANGED <<active, in_sessions, chunks_left, stream_enabled, epc,
                   n_sent, n_calls, n_started, calls, owed, missed, capVars>>

\* AgentManager.end_session, lines 334-341: deactivate, then await the worker
end_session_begin ==
    /\ in_sessions
    /\ epc = "idle"
    /\ active' = FALSE
    /\ epc' = "awaiting"
    /\ UNCHANGED <<message_queue, pending_turn, in_sessions, wpc, turn,
                   requests, chunks_left, stream_enabled, n_sent, n_calls,
                   next_turn_id, n_started, obsVars, capVars>>

\* AgentManager.end_session, lines 343-344: teardown and removal
end_session_finish ==
    /\ epc = "awaiting"
    /\ wpc = "closed"
    /\ in_sessions' = FALSE
    /\ epc' = "done"
    /\ UNCHANGED <<message_queue, pending_turn, active, wpc, turn, requests,
                   chunks_left, stream_enabled, n_sent, n_calls, next_turn_id,
                   n_started, obsVars, capVars>>

\* end_session, lines 340-343: the awaited worker task is done and
\* mcp_client.teardown() is entered
end_session_teardown ==
    /\ epc = "awaiting"
    /\ wpc = "closed"
    /\ epc' = "teardown"
    /\ UNCHANGED <<message_queue, pending_turn, active, in_sessions, wpc, turn,
                   requests, chunks_left, stream_enabled, n_sent, n_calls,
                   next_turn_id, n_started, obsVars, capVars>>

\* end_session, lines 343-344: the teardown has returned, the key is popped
end_session_pop ==
    /\ epc = "teardown"
    /\ in_sessions' = FALSE
    /\ epc' = "done"
    /\ UNCHANGED <<message_queue, pending_turn, active, wpc, turn, requests,
                   chunks_left, stream_enabled, n_sent, n_calls, next_turn_id,
                   n_started, obsVars, capVars>>

CapInit ==
    /\ tools_by_name = <<>> /\ prompts_by_name = <<>> /\ resources_by_uri = <<>>
    /\ provider_tools = <<>>
    /\ name_index = << >>
    /\ active_tools = <<>>
    /\ last_catalog = NoCatalog
    /\ initial_refresh = FALSE
    /\ n_caps = 0

NoMiss == [absent |-> {}, not_first |-> FALSE]

\* The session as create_session returns it (lines 117-141)
SchedInit ==
    /\ message_queue = <<>> /\ pending_turn = <<>>
    /\ active = TRUE /\ in_sessions = TRUE
    /\ wpc = "get" /\ turn = NoTurn /\ requests = <<>> /\ chunks_left = 0
    /\ stream_enabled \in BOOLEAN
    /\ epc = "idle"
    /\ n_sent = 0 /\ n_calls = 0 /\ next_turn_id = 1 /\ n_started = 0
    /\ last_turn = [id |-> 0, completions |-> 1, failed |-> FALSE]
    /\ calls = <<>> /\ owed = {} /\ missed = NoMiss
    /\ CapInit

\* --------------------------------------------------------- sampling gateway
SampleIds == 1..NumSamples
SessionKeys == {"alice:c1", "bob:c2"}

SampInit ==
    /\ sem = max_concurrency
    /\ inflight = 0 /\ completed = 0 /\ rejected = 0
    /\ spc = [c \in SampleIds |-> "new"]
    /\ skey = [c \in SampleIds |-> "alice:c1"]
    /\ sess = [k \in SessionKeys |-> "active"]
    /\ sbad = [c \in SampleIds |-> FALSE]
    /\ sret = [c \in SampleIds |-> None]

precheck_text_unchecked(status, provider_ok, text_only, has_client) ==
    IF status # "active" THEN "unknown or inactive session"
    ELSE IF ~provider_ok THEN "provider not supported"
    ELSE IF ~has_client THEN "agent has no client"
    ELSE "pass"

\* sample, lines 62-86: the checks before admission, in the code's order;
\* "pass", or the message of the ErrorData returned
precheck(status, provider_ok, text_only, has_client) ==
    IF status # "active" THEN "unknown or inactive session"
    ELSE IF ~provider_ok THEN "provider not supported"
    ELSE IF ~text_only THEN "TextContent only"
    ELSE IF ~has_client THEN "agent has no client"
    ELSE "pass"

sem_free_always(value) == TRUE

\* asyncio.Semaphore.acquire as used on line 90: a permit is free
sem_free(value) == value > 0

\* sample, lines 62-90. valid: the session's provider is ollama and the agent
\* has a client; text_only: every message of the request has text content.
\* No await lies between the checks and the acquire of line 90, and acquire
\* does not suspend when a permit is free: the call then starts in the same
\* step, otherwise the request waits for a permit
sample_enter(c, k, valid, text_only) ==
    /\ spc[c] = "new"
    /\ skey' = [skey EXCEPT ![c] = k]
    /\ sbad' = [sbad EXCEPT ![c] = sess[k] # "active" \/ ~text_only]
    /\ LET verdict == precheck(sess[k], valid, text_only, valid) IN
       IF verdict # "pass"
       THEN /\ rejected' = rejected + 1
            /\ spc' = [spc EXCEPT ![c] = "rejected"]
            /\ sret' = [sret EXCEPT ![c] = "ErrorData"]
            /\ UNCHANGED <<sem, inflight>>
       ELSE IF sem_free(sem)
       THEN /\ sem' = sem - 1
            /\ inflight' = inflight + 1
            /\ spc' = [spc EXCEPT ![c] = "calling"]
            /\ UNCHANGED <<rejected, sret>>
       ELSE /\ spc' = [spc EXCEPT ![c] = "waiting"]
            /\ UNCHANGED <<sem, inflight, rejected, sret>>
    /\ UNCHANGED <<completed, sess>>

Outcomes == {"ok", "timeout", "error", "cancelled"}

\* sample, lines 106-117 and 131-136: what the caller gets for each way the
\* model call ends
sample_result(outcome) ==
    CASE outcome = "ok" -> "CreateMessageResult"
      [] outcome = "timeout" -> "Sampling timed out"
      [] outcome = "error" -> "Sampling failed"
      [] outcome = "cancelled" -> "CancelledError raised"

release_on_return(value, outcome) ==
    IF outcome = "cancelled" THEN value ELSE value + 1

\* async with self._global_sem (line 90): the permit is given back however
\* the block is left
release_on_exit(value, outcome) == value + 1

\* sample, lines 90-104: a request that waited gets a permit and its model
\* call starts
sample_admit(c) ==
    /\ spc[c] = "waiting"
    /\ sem_free(sem)
    /\ sem' = sem - 1
    /\ inflight' = inflight + 1
    /\ spc' = [spc EXCEPT ![c] = "calling"]
    /\ UNCHANGED <<completed, rejected, skey, sess, sbad, sret>>

\* the caller is cancelled while it waits for a permit
sample_cancel_waiting(c) ==
    /\ spc[c] = "waiting"
    /\ spc' = [spc EXCEPT ![c] = "abandoned"]
    /\ sret' = [sret EXCEPT ![c] = sample_result("cancelled")]
    /\ UNCHANGED <<sem, inflight, completed, rejected, skey, sess, sbad>>

\* sample, lines 106-121: the model call ends; the except clauses, the
\* finally clause, and the release of the permit
sample_finish(c, outcome) ==
    /\ spc[c] = "calling"
    /\ outcome \in Outcomes
    /\ rejected' = IF outcome = "ok" THEN rejected ELSE rejected + 1
    /\ inflight' = inflight - 1
    /\ completed' = completed + 1
    /\ sem' = release_on_exit(sem, outcome)
    /\ spc' = [spc EXCEPT ![c] = outcome]
    /\ sret' = [sret EXCEPT ![c] = sample_result(outcome)]
    /\ UNCHANGED <<skey, sess, sbad>>

\* AgentManager.end_session seen from the gateway: line 339, then line 344
session_deactivate(k) ==
    /\ sess[k] = "active"
    /\ sess' = [sess EXCEPT ![k] = "inactive"]
    /\ UNCHANGED <<sem, inflight, completed, rejected, spc, skey, sbad, sret>>

session_remove(k) ==
    /\ sess[k] = "inactive"
    /\ sess' = [sess EXCEPT ![k] = "absent"]
    /\ UNCHANGED <<sem, inflight, completed, rejected, spc, skey, sbad, sret>>

\* ------------------------------------------------------------ create_session
Callers == 1..NumCallers
NoCall == [key |-> None, sid |-> 0, existed |-> FALSE, existing |-> 0,
           returned |-> 0, created |-> FALSE]

NoShutdown == [pc |-> "idle", snapshot |-> {}, todo |-> {}, running |-> {},
               ended |-> {}, failed |-> {}]

MgrInit ==
    /\ sessions = {}
    /\ cpc = [a \in Callers |-> "idle"]
    /\ ccall = [a \in Callers |-> NoCall]
    /\ bundles = {}
    /\ workers = {}
    /\ ending = {}
    /\ shut = NoShutdown

Lookup(d, k) == CHOOSE p \in d : p[1] = k

session_exists_never(d, k) == FALSE

\* create_session, line 97: session_key in self.sessions
session_exists(d, k) == \E p \in d : p[1] = k

\* self.sessions[key] = session (line 141)
dict_set(d, k, v) == {p \in d : p[1] # k} \cup {<<k, v>>}

\* create_session, lines 96-135: return the existing session, or build the
\* bundle and start MCPClient.initialize
create_session_begin(a, k) ==
    /\ cpc[a] \in {"idle", "returned", "raised"}
    /\ LET present == {p \in sessions : p[1] = k}
           existed == present # {}
           existing == IF existed THEN (CHOOSE p \in present : TRUE)[2] ELSE 0
           sid == Cardinality(bundles) + 1
       IN IF session_exists(sessions, k)
          THEN /\ cpc' = [cpc EXCEPT ![a] = "returned"]
               /\ ccall' = [ccall EXCEPT ![a] =
                     [key |-> k, sid |-> 0, existed |-> existed,
                      existing |-> existing,
                      returned |-> Lookup(sessions, k)[2], created |-> FALSE]]
               /\ UNCHANGED bundles
          ELSE /\ Cardinality(bundles) < MaxBundles
               /\ bundles' = bundles \cup {sid}
               /\ cpc' = [cpc EXCEPT ![a] = "init"]
               /\ ccall' = [ccall EXCEPT ![a] =
                     [key |-> k, sid |-> sid, existed |-> existed,
                      existing |-> existing, returned |-> 0, created |-> TRUE]]
    /\ UNCHANGED <<sessions, workers, ending, shut>>

\* create_session, lines 135-144: initialize returned true; the worker is
\* started and the session stored under its key
create_session_finish(a) ==
    /\ cpc[a] = "init"
    /\ workers' = workers \cup {ccall[a].sid}
    /\ sessions' = dict_set(sessions, ccall[a].key, ccall[a].sid)
    /\ cpc' = [cpc EXCEPT ![a] = "returned"]
    /\ ccall' = [ccall EXCEPT ![a].returned = ccall[a].sid]
    /\ UNCHANGED <<bundles, ending, shut>>

\* create_session, lines 136-137: initialize returned false
create_session_fail(a) ==
    /\ cpc[a] = "init"
    /\ cpc' = [cpc EXCEPT ![a] = "raised"]
    /\ UNCHANGED <<sessions, ccall, bundles, workers, ending, shut>>

\* end_session, lines 334-341: look the session up, deactivate it, await
\* its worker
mgr_end_session_begin(k) ==
    /\ session_exists(sessions, k)
    /\ ending' = ending \cup {Lookup(sessions, k)}
    /\ UNCHANGED <<sessions, cpc, ccall, bundles, workers, shut>>

\* end_session, lines 343-344: the worker has returned; teardown, then
\* self.sessions.pop(session_key, None)
mgr_end_session_finish(p) ==
    /\ p \in ending
    /\ ending' = ending \ {p}
    /\ workers' = workers \ {p[2]}
    /\ sessions' = {q \in sessions : q[1] # p[1]}
    /\ UNCHANGED <<cpc, ccall, bundles, shut>>

gather_propagates(failed) == IF failed # {} THEN "raised" ELSE "returned"

\* asyncio.gather(..., return_exceptions=True), line 349: the children's
\* exceptions are collected as results
gather(failed) == "returned"

\* shutdown, lines 348-349: one end_session per key of
\* list(self.sessions.keys()); the application calls it once, on exit
shutdown_begin ==
    /\ shut.pc = "idle"
    /\ shut' = [pc |-> "gathering", snapshot |-> sessions, todo |-> sessions,
                running |-> {}, ended |-> {}, failed |-> {}]
    /\ UNCHANGED <<sessions, cpc, ccall, bundles, workers, ending>>

\* a child of the gather runs end_session, lines 334-341, for the key
\* key.split(":", 1) gives back: return if the key is gone, else deactivate
\* the session found there and await its worker
shutdown_child_start(p) ==
    /\ shut.pc = "gathering" /\ p \in shut.todo
    /\ shut' = [shut EXCEPT
          !.todo = @ \ {p},
          !.running = IF session_exists(sessions, p[1])
                      THEN @ \cup {Lookup(sessions, p[1])} ELSE @]
    /\ UNCHANGED <<sessions, cpc, ccall, bundles, workers, ending>>

\* the child's end_session, lines 340-345: the worker task is done; either
\* the teardown returns and the key is popped, or awaiting the task or the
\* teardown raises and the pop is not reached
shutdown_child_finish(p, ok) ==
    /\ shut.pc = "gathering" /\ p \in shut.running
    /\ workers' = workers \ {p[2]}
    /\ sessions' = IF ok THEN {q \in sessions : q[1] # p[1]} ELSE sessions
    /\ shut' = [shut EXCEPT
          !.running = @ \ {p},
          !.ended = IF ok THEN @ \cup {p} ELSE @,
          !.failed = IF ok THEN @ ELSE @ \cup {p}]
    /\ UNCHANGED <<cpc, ccall, bundles, ending>>

\* shutdown, lines 349-350: every child is done
shutdown_return ==
    /\ shut.pc = "gathering" /\ shut.todo = {} /\ shut.running = {}
    /\ shut' = [shut EXCEPT !.pc = gather(shut.failed)]
    /\ UNCHANGED <<sessions, cpc, ccall, bundles, workers, ending>>

\* ---------------------------------------------------------------- MCP client
Lists == {"tools", "resources", "prompts"}
NoRpc == [raised |-> FALSE, value |-> None]

CliInit ==
    /\ cl_session = FALSE
    /\ cl_loop = "none"
    /\ cl_connected = FALSE /\ cl_done = FALSE /\ cl_closed = FALSE
    /\ cl_changed = [l \in Lists |-> TRUE]
    /\ cl_rpc = NoRpc
    /\ cl_init = "idle"

\* The client of a session create_session has returned (manager.py:135-137):
\* initialize returned true, so _run_client_loop has set the session and
\* _connected and is about to refresh (client.py:150-153)
CliCreated ==
    /\ cl_session = TRUE
    /\ cl_loop = "refreshing"
    /\ cl_connected = TRUE /\ cl_done = FALSE /\ cl_closed = FALSE
    /\ cl_changed = [l \in Lists |-> TRUE]
    /\ cl_rpc = NoRpc
    /\ cl_init = "true"

\* a value returned, or an exception leaving the callee
Returned(v) == [raised |-> FALSE, value |-> v]
Raised(v) == [raised |-> TRUE, value |-> v]

\* The requests execute_json_rpc may be handed: the method (None: absent),
\* whether params is a dict, and whether it carries the name / uri
Methods == {None, "", "bogus/method", "tools/call", "prompts/get",
            "resources/read", "tools/list", "prompts/list", "resources/list"}
KeyedMethods == {"tools/call", "prompts/get", "resources/read"}
ListMethods == {"tools/list", "prompts/list", "resources/list"}
RpcRequests == [method : Methods, params_dict : BOOLEAN, has_key : BOOLEAN]

\* call_tool / get_prompt / read_resource (client.py:235-284): the checks
\* raise, a failure of the session's operation comes back as a string
keyed_operation(session, req, op_fails) ==
    IF ~session THEN Raised("RuntimeError")
    ELSE IF ~req.params_dict THEN Raised("AttributeError")
    ELSE IF ~req.has_key THEN Raised("ValueError")
    ELSE IF op_fails THEN Returned("operation error text")
    ELSE Returned("result")

\* list_tools / list_prompts / list_resources (client.py:287-320)
list_operation(session, op_fails) ==
    IF ~session THEN Raised("RuntimeError")
    ELSE IF op_fails THEN Returned("list error text")
    ELSE Returned("result")

\* _refresh_capabilities (client.py:166-193): the lists whose flag is set are
\* fetched in the order tools, resources, prompts, then the handler runs;
\* fail_at names the step that raises, if it is reached. The flags left.
refresh_flags(session, changed, fail_at) ==
    IF ~session THEN changed
    ELSE LET t_done == changed["tools"] /\ fail_at # "tools"
             t_stop == changed["tools"] /\ fail_at = "tools"
             r_done == ~t_stop /\ changed["resources"] /\ fail_at # "resources"
             r_stop == ~t_stop /\ changed["resources"] /\ fail_at = "resources"
             p_done == ~t_stop /\ ~r_stop /\ changed["prompts"]
                          /\ fail_at # "prompts"
         IN [l \in Lists |->
                CASE l = "tools" -> changed[l] /\ ~t_done
                  [] l = "resources" -> changed[l] /\ ~r_done
                  [] l = "prompts" -> changed[l] /\ ~p_done]

\* _refresh_capabilities: its except clause; nothing leaves it
refresh_outcome(fail_at) == Returned(None)

rpc_uncaught(r) == r

\* execute_json_rpc, lines 226-228: except Exception -> the error string
rpc_except(r) == IF r.raised THEN Returned("JSON-RPC error") ELSE r

\* execute_json_rpc (client.py:199-228): what the caller gets
rpc_outcome(session, req, op_fails, fail_at) ==
    IF ~session THEN Returned("not initialized")
    ELSE IF req.method \in {None, ""} THEN Returned("missing method")
    ELSE IF req.method \notin KeyedMethods \cup ListMethods
         THEN Returned("unknown method")
    ELSE LET result == IF req.method \in KeyedMethods
                       THEN keyed_operation(session, req, op_fails)
                       ELSE list_operation(session, op_fails)
             refreshed == IF result.raised THEN result
                          ELSE refresh_outcome(fail_at)
         IN rpc_except(IF refreshed.raised THEN refreshed ELSE result)

FailPoints == {None, "tools", "resources", "prompts", "handler"}

\* MCPClient.initialize, lines 83-84: the connection task is created
client_initialize ==
    /\ cl_loop = "none" /\ ~cl_done
    /\ cl_loop' = "connecting"
    /\ cl_init' = "waiting"
    /\ UNCHANGED <<cl_session, cl_connected, cl_done, cl_closed, cl_changed, cl_rpc>>

\* MCPClient.initialize, lines 85-90: _connected was set within the timeout
client_initialize_return ==
    /\ cl_init = "waiting" /\ cl_connected
    /\ cl_init' = "true"
    /\ UNCHANGED <<cl_session, cl_loop, cl_connected, cl_done, cl_closed,
                   cl_changed, cl_rpc>>

\* MCPClient.initialize, lines 86-88: wait_for gave up on _connected.wait()
\* after 10 seconds; the error is logged and False returned
client_initialize_timeout ==
    /\ cl_init = "waiting" /\ ~cl_connected
    /\ cl_init' = "false"
    /\ UNCHANGED <<cl_session, cl_loop, cl_connected, cl_done, cl_closed,
                   cl_changed, cl_rpc>>

\* _run_client_loop, lines 150-152: the session is opened and initialized
client_connect ==
    /\ cl_loop = "connecting"
    /\ cl_session' = TRUE
    /\ cl_connected' = TRUE
    /\ cl_loop' = "refreshing"
    /\ UNCHANGED <<cl_done, cl_closed, cl_changed, cl_rpc, cl_init>>

\* _run_client_loop, lines 157-160: the transport or session.initialize
\* raised; ok_session: the failure came after self.session was assigned
client_connect_fail(ok_session) ==
    /\ cl_loop = "connecting"
    /\ cl_session' = ok_session
    /\ cl_closed' = TRUE
    /\ cl_loop' = "exited"
    /\ UNCHANGED <<cl_connected, cl_done, cl_changed, cl_rpc, cl_init>>

\* _run_client_loop, line 153: the first _refresh_capabilities
client_first_refresh(fail_at) ==
    /\ cl_loop = "refreshing"
    /\ cl_changed' = refresh_flags(cl_session, cl_changed, fail_at)
    /\ cl_loop' = "waiting"
    /\ UNCHANGED <<cl_session, cl_connected, cl_done, cl_closed, cl_rpc, cl_init>>

\* _message_handler (client.py:113-129): a list-changed notification
client_notify(l) ==
    /\ cl_loop \in {"refreshing", "waiting"}
    /\ ~cl_changed[l]
    /\ cl_changed' = [cl_changed EXCEPT ![l] = TRUE]
    /\ UNCHANGED <<cl_session, cl_loop, cl_connected, cl_done, cl_closed, cl_rpc, cl_init>>

\* MCPClient.execute_json_rpc with the refresh it runs after the operation
execute_json_rpc(req, op_fails, fail_at) ==
    /\ cl_rpc' = rpc_outcome(cl_session, req, op_fails, fail_at)
    /\ cl_changed' =
          IF /\ cl_session
             /\ req.method \in KeyedMethods \cup ListMethods
             /\ ~(IF req.method \in KeyedMethods
                  THEN keyed_operation(cl_session, req, op_fails)
                  ELSE list_operation(cl_session, op_fails)).raised
          THEN refresh_flags(cl_session, cl_changed, fail_at)
          ELSE cl_changed
    /\ UNCHANGED <<cl_session, cl_loop, cl_connected, cl_done, cl_closed, cl_init>>

\* MCPClient.teardown, line 93: done.set(), then the task is awaited
client_teardown_begin ==
    /\ ~cl_done
    /\ cl_done' = TRUE
    /\ UNCHANGED <<cl_session, cl_loop, cl_connected, cl_closed, cl_changed, cl_rpc, cl_init>>

\* _run_client_loop, lines 154-160: done is set, the contexts are left
client_loop_exit ==
    /\ cl_loop = "waiting" /\ cl_done
    /\ cl_loop' = "exited"
    /\ cl_closed' = TRUE
    /\ UNCHANGED <<cl_session, cl_connected, cl_done, cl_changed, cl_rpc, cl_init>>

\* MCPClient.teardown, lines 94-100: the task has ended (or never existed)
client_teardown_finish ==
    /\ cl_done /\ cl_loop \in {"none", "exited"}
    /\ cl_session \/ ~cl_closed
    /\ cl_session' = FALSE
    /\ cl_closed' = TRUE
    /\ UNCHANGED <<cl_loop, cl_connected, cl_done, cl_changed, cl_rpc, cl_init>>

\* --------------------------------------------------------------------- agent
\* Texts are sequences of characters; None stands for Python's None.
Chars == {"a", " "}
IsBlank(ch) == ch = " "

RECURSIVE lstrip(_)
lstrip(t) == IF t # <<>> /\ IsBlank(Head(t)) THEN lstrip(Tail(t)) ELSE t

RECURSIVE rstrip(_)
rstrip(t) == IF t # <<>> /\ IsBlank(t[Len(t)])
             THEN rstrip(SubSeq(t, 1, Len(t) - 1)) ELSE t

\* str.strip
strip(t) == rstrip(lstrip(t))

\* `x or None` for a text x
OrNone(t) == IF t = <<>> THEN None ELSE t

Msg(role, content) == [role |-> role, content |-> content]

\* OllamaAgent._is_system_message
is_system_message(msg) == msg.role = "system"

NoCb == [fired |-> FALSE, arg |-> None, emitted |-> None]
NoCompletion == [fired |-> FALSE, thinking |-> None, content |-> None]

\* the agent as create_session builds it, but for its configuration
AgentFields ==
    /\ history = <<>>
    /\ system_prompt_template = <<>>
    /\ prompt_set = FALSE
    /\ gpc = "idle"
    /\ g_stream = TRUE
    /\ accumulated_content = <<>> /\ accumulated_thinking = <<>>
    /\ content_buffer = <<>> /\ thinking_buffer = <<>> /\ last_thinking = None
    /\ cb_response = NoCb /\ cb_thinking = NoCb /\ cb_completion = NoCompletion
    /\ hist_before = <<>>
    /\ n_chunks = 0 /\ n_gens = 0

AgentInit == AgentFields /\ thinking_enabled = TRUE

genVars == <<thinking_enabled, gpc, g_stream, accumulated_content, accumulated_thinking,
             content_buffer, thinking_buffer, last_thinking, cb_response,
             cb_thinking, cb_completion, hist_before, n_chunks, n_gens>>

\* BaseAgent.reset
reset(h) == SelectSeq(h, is_system_message)

upsert_always_insert(h, content) == <<Msg("system", content)>> \o h

\* BaseAgent._upsert_system_message
upsert_system_message(h, content) ==
    IF h # <<>> /\ is_system_message(h[1])
    THEN [h EXCEPT ![1] = Msg("system", content)]
    ELSE <<Msg("system", content)>> \o h

\* BaseAgent.set_system_prompt
set_system_prompt(template) ==
    /\ system_prompt_template' = template
    /\ prompt_set' = (prompt_set \/ template # <<>>)
    /\ history' = IF template = <<>> THEN history
                  ELSE upsert_system_message(history, template)
    /\ Len(history') <= MaxHistory
    /\ UNCHANGED genVars

\* BaseAgent.reset, as the CLI's reset command calls it
agent_reset ==
    /\ history' = reset(history)
    /\ UNCHANGED <<system_prompt_template, prompt_set, genVars>>

\* The messages a turn hands to the generators: user and tool messages
\* built by the adapter
NewMessages == { <<Msg("user", <<"a">>)>>, <<Msg("tool", <<"a">>)>>,
                 <<Msg("tool", <<"a">>), Msg("user", <<"a">>)>> }

\* generate_response / generate_response_sync, the first loop:
\* for message in new_messages: self.add_message(message)
ingest(h, new_messages) == h \o new_messages

\* generate_response (lines 97-111) or generate_response_sync (157-174) is
\* called: the new messages are added, the chat request is sent
generate_begin(stream, new_messages) ==
    /\ gpc \in {"idle", "done", "failed"}
    /\ n_gens < MaxGens
    /\ Len(history) + Len(new_messages) + 1 <= MaxHistory
    /\ n_gens' = n_gens + 1
    /\ hist_before' = history
    /\ history' = ingest(history, new_messages)
    /\ g_stream' = stream
    /\ gpc' = "calling"
    /\ accumulated_content' = <<>> /\ accumulated_thinking' = <<>>
    /\ content_buffer' = <<>> /\ thinking_buffer' = <<>>
    /\ last_thinking' = None
    /\ cb_response' = NoCb /\ cb_thinking' = NoCb
    /\ cb_completion' = NoCompletion
    /\ n_chunks' = 0
    /\ UNCHANGED <<system_prompt_template, prompt_set, thinking_enabled>>

\* client.chat raised (runtime unreachable, timeout), the stream raised, or
\* _ensure_chat_response rejected a response
generate_fails ==
    /\ gpc \in {"calling", "streaming"}
    /\ gpc' = "failed"
    /\ UNCHANGED <<thinking_enabled,
                   history, system_prompt_template, prompt_set, g_stream,
                   accumulated_content, accumulated_thinking, content_buffer,
                   thinking_buffer, last_thinking, cb_response, cb_thinking,
                   cb_completion, hist_before, n_chunks, n_gens>>

ContentChunks == {<<>>} \cup {<<ch>> : ch \in Chars}
ThinkingChunks == {<<>>, <<"a">>}

\* generate_response, lines 119-147, one response of the stream, and the
\* body of the async for in _handle_streaming_response (lines 201-211) for
\* the chunk it yields
agent_stream_chunk(chunk_content, chunk_thinking) ==
    /\ gpc \in {"calling", "streaming"}
    /\ g_stream
    /\ n_chunks < MaxStreamChunks
    /\ n_chunks' = n_chunks + 1
    /\ gpc' = "streaming"
    /\ accumulated_content' = accumulated_content \o chunk_content
    /\ accumulated_thinking' = accumulated_thinking \o chunk_thinking
    /\ LET yields == chunk_content # <<>> \/ chunk_thinking # <<>>
           thinking == IF chunk_thinking # <<>>
                       THEN accumulated_thinking' ELSE None
           content == chunk_content
           has_thinking == yields /\ thinking # None
           has_content == yields /\ content # <<>> /\ strip(content) # <<>>
       IN /\ thinking_buffer' = IF has_thinking
                                THEN thinking_buffer \o thinking
                                ELSE thinking_buffer
          /\ last_thinking' = IF has_thinking THEN thinking_buffer'
                              ELSE last_thinking
          /\ cb_thinking' = IF has_thinking
                            THEN [fired |-> TRUE, arg |-> thinking_buffer',
                                  emitted |-> accumulated_thinking']
                            ELSE cb_thinking
          /\ content_buffer' = IF has_content
                               THEN content_buffer \o content
                               ELSE content_buffer
          /\ cb_response' = IF has_content
                            THEN [fired |-> TRUE, arg |-> content_buffer',
                                  emitted |-> accumulated_content']
                            ELSE cb_response
    /\ UNCHANGED <<thinking_enabled, history, system_prompt_template,
                   prompt_set, g_stream, cb_completion, hist_before, n_gens>>

\* generate_response, lines 149-155, the stream is exhausted, and
\* _handle_streaming_response, lines 222-230
agent_stream_end ==
    /\ gpc \in {"calling", "streaming"}
    /\ g_stream
    /\ history' = IF accumulated_content # <<>> \/ accumulated_thinking # <<>>
                  THEN Append(history, Msg("assistant", accumulated_content))
                  ELSE history
    /\ cb_completion' = [fired |-> TRUE, thinking |-> last_thinking,
                         content |-> OrNone(strip(content_buffer))]
    /\ gpc' = "done"
    /\ UNCHANGED <<thinking_enabled, system_prompt_template, prompt_set, g_stream,
                   accumulated_content,
                   accumulated_thinking, content_buffer, thinking_buffer,
                   last_thinking, cb_response, cb_thinking, hist_before,
                   n_chunks, n_gens>>

SyncContents == {<<>>, <<"a">>, <<" ">>, <<"a", " ">>}

\* generate_response_sync, lines 166-187, and _handle_sync_response
agent_sync_response(content, message_thinking) ==
    /\ gpc = "calling"
    /\ ~g_stream
    /\ LET thinking == IF thinking_enabled THEN message_thinking ELSE <<>>
       IN /\ accumulated_thinking' = thinking
          /\ cb_thinking' = IF thinking # <<>>
                            THEN [fired |-> TRUE, arg |-> thinking,
                                  emitted |-> thinking]
                            ELSE cb_thinking
          /\ cb_completion' = [fired |-> TRUE, thinking |-> OrNone(thinking),
                               content |-> OrNone(strip(content))]
    /\ history' = Append(history, Msg("assistant", content))
    /\ accumulated_content' = content
    /\ cb_response' = IF strip(content) # <<>>
                      THEN [fired |-> TRUE, arg |-> content, emitted |-> content]
                      ELSE cb_response
    /\ gpc' = "done"
    /\ UNCHANGED <<thinking_enabled, system_prompt_template, prompt_set,
                   g_stream, content_buffer, thinking_buffer, last_thinking,
                   hist_before, n_chunks, n_gens>>

Templates == {<<>>, <<"a">>, <<"a", "a">>}

\* ------------------------------------------------------------- stream buffer
BufChars == {"a", "b"}
RECURSIVE TextsUpTo(_)
TextsUpTo(n) ==
    IF n = 0 THEN {<<>>}
    ELSE LET shorter == TextsUpTo(n - 1)
         IN shorter \cup {Append(t, c) : t \in shorter, c \in BufChars}

Texts == TextsUpTo(MaxText)

NoRet == [called |-> FALSE, delta |-> None, first |-> FALSE,
          content |-> <<>>, shorter |-> FALSE]

BufInit ==
    /\ sb_buffer = [present |-> FALSE, text |-> <<>>]
    /\ sb_ret = NoRet
    /\ sb_mono = TRUE
    /\ sb_sum = <<>>

IsPrefix(a, b) == Len(a) <= Len(b) /\ SubSeq(b, 1, Len(a)) = a

whole_content(content, current_buffer) == content

\* get_delta, line 56: content[len(current_buffer):]
new_content(content, current_buffer) ==
    SubSeq(content, Len(current_buffer) + 1, Len(content))

\* StreamBuffer.get_delta (stream_buffer.py:23-68): the buffer it leaves and
\* the pair it returns
get_delta_result(buffer, content) ==
    LET current_buffer == IF buffer.present THEN buffer.text ELSE <<>>
        is_first == ~buffer.present
        stored == [present |-> TRUE, text |-> content]
    IN IF current_buffer = content
       THEN [buffer |-> buffer, delta |-> None, first |-> FALSE]
       ELSE IF Len(content) > Len(current_buffer)
       THEN [buffer |-> stored,
             delta |-> new_content(content, current_buffer),
             first |-> is_first]
       ELSE IF Len(content) < Len(current_buffer)
       THEN [buffer |-> stored, delta |-> content, first |-> is_first]
       ELSE [buffer |-> buffer, delta |-> None, first |-> FALSE]

get_delta(content) ==
    LET r == get_delta_result(sb_buffer, content)
        extends == ~sb_ret.called \/ IsPrefix(sb_ret.content, content)
    IN /\ sb_buffer' = r.buffer
       /\ sb_ret' = [called |-> TRUE, delta |-> r.delta, first |-> r.first,
                     content |-> content,
                     shorter |-> sb_buffer.present /\
                                 Len(content) < Len(sb_buffer.text)]
       /\ sb_mono' = (sb_mono /\ extends)
       /\ sb_sum' = IF ~sb_mono' THEN <<>>
                    ELSE IF r.delta = None THEN sb_sum
                    ELSE sb_sum \o r.delta

\* StreamBuffer.clear for the key
buffer_clear ==
    /\ sb_buffer' = [present |-> FALSE, text |-> <<>>]
    /\ sb_ret' = NoRet
    /\ sb_mono' = TRUE
    /\ sb_sum' = <<>>

\* ------------------------------------------------------- request dispatch
\* _handle_streaming_response, lines 213-220 (_handle_sync_response, lines
\* 244-251), with _execute_single_request taken one await at a time.
DispInit ==
    /\ d_step = 0
    /\ d_handled = FALSE
    /\ d_log = <<>>
    /\ d_done = FALSE
    /\ d_payload = <<>>
    /\ d_catalog = NoCatalog
    /\ d_requests = <<>>

\* function.name and arguments.get("uri") of the calls of a payload: the
\* shapes above, a call named by a resource URI, a call without a name
DispatchShapes ==
    CallShapes \cup { [name |-> "file://a.md", uri |-> None],
                      [name |-> "", uri |-> None] }

\* The tool payloads of one chunk: calls numbered by their position
DispatchPayloads ==
    UNION { { [i \in 1..n |-> [name |-> f[i].name, uri |-> f[i].uri, cid |-> i]] :
                f \in [1..n -> DispatchShapes] } : n \in 1..MaxRequests }

request_steps_late_callback == <<"dispatch", "tool_call", "result">>

\* _execute_single_request: on_agent_tool_call is awaited (line 269), then
\* execute_json_rpc (line 272); the caller appends what it returns (line 220)
request_steps == <<"tool_call", "dispatch", "result">>

\* lines 213-218: the payload is translated, the mapping error appended, the
\* for loop over the requests begins
handle_tool_payload(payload) ==
    /\ ~d_handled /\ d_step = 0 /\ requests = <<>>
    /\ LET r == adapt_model_call_to_mcp(payload) IN
       /\ pending_turn' = IF r.mapping_error # NoEntry
                          THEN Append(pending_turn, r.mapping_error)
                          ELSE pending_turn
       /\ requests' = r.requests
       /\ d_requests' = r.requests
    /\ d_payload' = payload
    /\ d_catalog' = last_catalog
    /\ d_handled' = TRUE
    /\ d_log' = <<>>
    /\ UNCHANGED <<d_step, d_done, message_queue, active, in_sessions, wpc, turn,
                   chunks_left, stream_enabled, epc, n_sent, n_calls,
                   next_turn_id, n_started, obsVars, capVars, mapVars, argVars,
                   refVars, moreVars>>

\* the next await of _execute_single_request for the request in hand
\* returns; execute_json_rpc ends with the capability refresh, which hands
\* the catalog it found to capability_handler before the result is appended
execute_single_request_step(cat, has_text) ==
    /\ requests # <<>>
    /\ LET req == Head(requests)
           step == request_steps[d_step + 1]
       IN /\ d_log' = Append(d_log, [ev |-> step, call |-> req.call])
          /\ IF step = "result"
             THEN /\ Deliverable(cat)
                  /\ pending_turn' = Append(handler_pending(cat, pending_turn),
                                            ResultEntry(req.call, has_text))
                  /\ requests' = remaining_requests(requests)
                  /\ ApplyCapabilities(cat)
             ELSE /\ cat = last_catalog
                  /\ UNCHANGED <<pending_turn, requests, tools_by_name,
                                 prompts_by_name, resources_by_uri,
                                 provider_tools, name_index, active_tools,
                                 last_catalog, n_caps>>
          /\ d_step' = IF d_step + 1 = Len(request_steps) THEN 0 ELSE d_step + 1
    /\ UNCHANGED <<d_handled, d_done, d_payload, d_catalog, d_requests,
                   message_queue, active, in_sessions, wpc, turn,
                   chunks_left, stream_enabled, epc, n_sent, n_calls,
                   next_turn_id, n_started, obsVars, initial_refresh, mapVars,
                   argVars, refVars, moreVars>>

\* _process_turn, lines 188-189, after the handler of the payload returned:
\* finally: await self._enqueue_turn(session)
process_turn_commit ==
    /\ d_handled /\ ~d_done
    /\ requests = <<>> /\ d_step = 0
    /\ CommitWith(process_turn_finally(pending_turn, message_queue))
    /\ d_done' = TRUE
    /\ UNCHANGED <<d_step, d_handled, d_log, d_payload, d_catalog, d_requests,
                   requests, active, in_sessions,
                   wpc, turn, chunks_left, stream_enabled, epc, n_sent,
                   n_calls, n_started, obsVars, capVars, mapVars, argVars,
                   refVars, moreVars>>

\* ------------------------------------------------------------ tool mapper
\* MCPToolMapper.update called directly, with lists in which a key may be
\* empty or repeated and a resource URI may equal a tool name.
MapInit ==
    /\ m_args = <<>>
    /\ m_ret = NoSummary
    /\ m_before = <<>>
    /\ m_same = FALSE
    /\ m_changed = {}

RECURSIVE KeyLists(_, _)
KeyLists(keys, n) ==
    IF n = 0 THEN {<<>>}
    ELSE LET shorter == KeyLists(keys, n - 1)
         IN shorter \cup {Append(l, k) : l \in shorter, k \in keys}

MapperCatalogs ==
    { [tools |-> t, prompts |-> p, resources |-> r] :
        t \in KeyLists({"", "echo", "add"}, MaxKeys),
        p \in KeyLists({"greet"}, 1),
        r \in KeyLists({"echo"}, 1) }

\* update, lines 36-53: the three indexes are merged, the provider tools
\* rebuilt, the summary returned; nothing else of the adapter is touched
mapper_update(cat) ==
    LET u == tool_mapper_update(cat) IN
    /\ tools_by_name' = u.tools
    /\ prompts_by_name' = u.prompts
    /\ resources_by_uri' = u.resources
    /\ provider_tools' = u.provider_tools
    /\ m_args' = <<cat>>
    /\ m_ret' = u.summary
    /\ m_before' = provider_tools
    /\ m_same' = (m_args = <<cat>>)
    /\ m_changed' =
          {k \in {"tools"} : Range(u.tools) # Range(tools_by_name)}
          \cup {k \in {"prompts"} : Range(u.prompts) # Range(prompts_by_name)}
          \cup {k \in {"resources"} : Range(u.resources) # Range(resources_by_uri)}
    /\ UNCHANGED <<name_index, active_tools, last_catalog, n_caps,
                   initial_refresh, dispVars, argVars, refVars,
                   moreVars>>

\* ------------------------------------------------------- tool arguments
\* Python values as the coercer tells them apart: a dict is
\* [kind |-> "dict", items |-> <<key, value>> pairs], every other value is
\* [kind |-> its type, repr |-> its text]; a tuple of pairs is kept with its
\* pairs for dict() to consume.
PyDict(items) == [kind |-> "dict", items |-> items]
PyValue(kind, repr) == [kind |-> kind, repr |-> repr]
PyNone == PyValue("NoneType", "None")
PyStr(text) == PyValue("str", text)

ArgKeys == {"uri", "a", "_", "_raw"}
ItemValues == {PyValue("int", "1"), PyStr("x")}

\* the item lists of mappings with up to n distinct keys
RECURSIVE ItemLists(_)
ItemLists(n) ==
    IF n = 0 THEN {<<>>}
    ELSE LET shorter == ItemLists(n - 1)
         IN shorter \cup
            { Append(l, <<k, v>>) :
                l \in shorter, k \in ArgKeys, v \in ItemValues }

DistinctKeys(items) ==
    \A i, j \in 1..Len(items) : items[i][1] = items[j][1] => i = j

Mappings == {PyDict(l) : l \in {x \in ItemLists(MaxArgs) : DistinctKeys(x)}}

JsonTexts ==
    { "{}", "{\"uri\": \"x\"}", "{\"a\": 1}", "[1]", "3", "1.5", "true",
      "null", "\"x\"", "oops", "{", " " }

ArgumentValues ==
    Mappings
    \cup {PyNone, PyStr("")}
    \cup {PyStr(t) : t \in JsonTexts}
    \cup { PyValue("int", "0"), PyValue("int", "1"), PyValue("float", "1.5"),
           PyValue("bool", "True"), PyValue("bool", "False"),
           PyValue("list", "[]"), PyValue("list", "[1]") }
    \cup { [kind |-> "tuple", items |-> << <<"a", PyValue("int", "1")>> >>],
           PyValue("tuple", "(1,)"), PyValue("bytes", "b'ab'"),
           PyValue("object", "<object>") }

\* json.loads on the texts above: the value parsed, or a failure
json_loads(text) ==
    CASE text = "{}" -> [ok |-> TRUE, value |-> PyDict(<<>>)]
      [] text = "{\"uri\": \"x\"}" ->
            [ok |-> TRUE, value |-> PyDict(<< <<"uri", PyStr("x")>> >>)]
      [] text = "{\"a\": 1}" ->
            [ok |-> TRUE, value |-> PyDict(<< <<"a", PyValue("int", "1")>> >>)]
      [] text = "[1]" -> [ok |-> TRUE, value |-> PyValue("list", "[1]")]
      [] text = "3" -> [ok |-> TRUE, value |-> PyValue("int", "3")]
      [] text = "1.5" -> [ok |-> TRUE, value |-> PyValue("float", "1.5")]
      [] text = "true" -> [ok |-> TRUE, value |-> PyValue("bool", "True")]
      [] text = "null" -> [ok |-> TRUE, value |-> PyNone]
      [] text = "\"x\"" -> [ok |-> TRUE, value |-> PyStr("x")]
      [] OTHER -> [ok |-> FALSE, value |-> PyNone]

\* a value stored under a key of a result; a mapping is stored by its text
AsItem(value) ==
    IF value.kind = "dict" THEN PyValue("dict", "{...}") ELSE value

ensure_arguments_dict_wrapping(arguments) ==
    IF arguments.kind = "NoneType"
    THEN PyDict(<<>>)
    ELSE PyDict(<< <<"_", AsItem(arguments)>> >>)

\* OllamaCallTranslator._ensure_arguments_dict, lines 150-166
ensure_arguments_dict(arguments) ==
    IF arguments.kind = "dict" THEN arguments
    ELSE IF arguments = PyNone \/ arguments = PyStr("") THEN PyDict(<<>>)
    ELSE IF arguments.kind \in {"list", "int", "float", "bool"}
         THEN PyDict(<< <<"_", AsItem(arguments)>> >>)
    ELSE IF arguments.kind = "str"
         THEN LET parsed == json_loads(arguments.repr)
              IN IF ~parsed.ok THEN PyDict(<< <<"_raw", arguments>> >>)
                 ELSE IF parsed.value.kind = "dict" THEN parsed.value
                 ELSE PyDict(<< <<"_", AsItem(parsed.value)>> >>)
    ELSE IF "items" \in DOMAIN arguments
         THEN PyDict(arguments.items)
         ELSE PyDict(<< <<"_raw", PyStr(arguments.repr)>> >>)

ArgInit ==
    /\ a_step = 0
    /\ a_in = PyNone
    /\ a_once = PyDict(<<>>)
    /\ a_twice = PyDict(<<>>)

\* to_json_rpc, line 119: the arguments of a tool call are coerced
coerce_arguments(arguments) ==
    /\ a_step' = 1
    /\ a_in' = arguments
    /\ a_once' = ensure_arguments_dict(arguments)
    /\ a_twice' = PyDict(<<>>)
    /\ UNCHANGED <<dispVars, mapVars, refVars, moreVars>>

\* the mapping it returned is handed to it again
coerce_again ==
    /\ a_step = 1
    /\ a_step' = 2
    /\ a_twice' = ensure_arguments_dict(a_once)
    /\ UNCHANGED <<a_in, a_once, dispVars, mapVars, refVars, moreVars>>

\* --------------------------------------------------- capability refresh
RefInit ==
    /\ rf_pc = "idle"
    /\ rf_round = 0
    /\ rf_start = [l \in Lists |-> FALSE]
    /\ rf_fetched = {}
    /\ rf_cleared = {}
    /\ rf_late = {}
    /\ cl_cache = [l \in Lists |-> 0]

\* lines 171-184: the order in which the three flags are tested
refresh_order == <<"tools", "resources", "prompts">>

PositionOf(l) == CHOOSE i \in 1..3 : refresh_order[i] = l

\* the next await of the refresh after the list at position i: the fetch of
\* the first later list whose flag is set, else the handler (line 186-191)
next_fetch(i, changed) ==
    LET later == {j \in (i + 1)..3 : changed[refresh_order[j]]} IN
    IF later = {} THEN "handler"
    ELSE refresh_order[CHOOSE j \in later : \A k \in later : j <= k]

\* _refresh_capabilities, lines 166-172: with a session, up to the first await
refresh_begin ==
    /\ rf_pc = "idle"
    /\ rf_round < MaxRefreshes
    /\ cl_session
    /\ rf_round' = rf_round + 1
    /\ rf_start' = cl_changed
    /\ rf_fetched' = {}
    /\ rf_cleared' = {}
    /\ rf_pc' = next_fetch(0, cl_changed)
    /\ rf_late' = rf_late \ {rf_pc'}
    /\ UNCHANGED <<cl_cache, cliVars, dispVars, mapVars, argVars, moreVars>>

\* the list_* call in flight returns (the cache is assigned, the flag
\* cleared, the next flag tested) or raises (line 192: the except clause
\* logs and the refresh is over)
refresh_fetched(ok) ==
    /\ rf_pc \in Lists
    /\ IF ok
       THEN /\ cl_cache' = [cl_cache EXCEPT ![rf_pc] = rf_round]
            /\ cl_changed' = [cl_changed EXCEPT ![rf_pc] = FALSE]
            /\ rf_fetched' = rf_fetched \cup {rf_pc}
            /\ rf_cleared' = rf_cleared \cup {rf_pc}
            /\ rf_pc' = next_fetch(PositionOf(rf_pc), cl_changed)
            /\ rf_late' = rf_late \ {rf_pc'}
       ELSE /\ rf_pc' = "idle"
            /\ UNCHANGED <<cl_cache, cl_changed, rf_fetched, rf_cleared,
                           rf_late>>
    /\ UNCHANGED <<rf_round, rf_start, cl_session, cl_loop, cl_connected,
                   cl_done, cl_closed, cl_rpc, cl_init, dispVars, mapVars,
                   argVars, moreVars>>

\* lines 186-193: on_capabilities_changed returns or raises
refresh_handler_done ==
    /\ rf_pc = "handler"
    /\ rf_pc' = "idle"
    /\ UNCHANGED <<rf_round, rf_start, rf_fetched, rf_cleared, rf_late,
                   cl_cache, cliVars, dispVars, mapVars, argVars, moreVars>>

\* _message_handler (client.py:113-129), called by the session's receive
\* loop whenever a list-changed notification arrives
message_handler(l) ==
    /\ cl_changed' = [cl_changed EXCEPT ![l] = TRUE]
    /\ rf_late' = rf_late \cup {l}
    /\ UNCHANGED <<rf_pc, rf_round, rf_start, rf_fetched, rf_cleared, cl_cache,
                   cl_session, cl_loop, cl_connected, cl_done, cl_closed,
                   cl_rpc, cl_init, dispVars, mapVars, argVars, moreVars>>

\* ------------------------------------------------- streamed tool calls
\* A tool call as the model sends it: the function name and the arguments,
\* a mapping given as <<key, value>> pairs in the order the chunk holds them.
ArgumentOrders ==
    { <<>>,
      << <<"a", "1">> >>,
      << <<"a", "2">> >>,
      << <<"a", "1">>, <<"b", "1">> >>,
      << <<"b", "1">>, <<"a", "1">> >> }

StreamCalls == {[name |-> "echo", arguments |-> args] : args \in ArgumentOrders}

ChunkCalls ==
    UNION { { [i \in 1..n |-> f[i]] : f \in [1..n -> StreamCalls] } :
              n \in 0..MaxChunkCalls }

\* the position of a key in sorted order
KeyRank(k) == CASE k = "a" -> 1 [] k = "b" -> 2 [] OTHER -> 3

\* the pairs of a mapping in the order of their keys (sort_keys=True)
RECURSIVE SortedPairs(_)
SortedPairs(pairs) ==
    IF pairs = <<>> THEN <<>>
    ELSE LET least == CHOOSE i \in 1..Len(pairs) :
                         \A j \in 1..Len(pairs) :
                            KeyRank(pairs[i][1]) <= KeyRank(pairs[j][1])
         IN <<pairs[least]>> \o SortedPairs(RemoveAt(pairs, least))

stable_call_key_unsorted(call) == <<call.name, call.arguments>>

\* _stable_call_key, lines 20-22: json.dumps(call, sort_keys=True, ...)
stable_call_key(call) == <<call.name, SortedPairs(call.arguments)>>

\* lines 132-138: the loop over the calls of one chunk; st holds seen,
\* collected and new_calls
RECURSIVE collect_new_calls(_, _)
collect_new_calls(tool_calls, st) ==
    IF tool_calls = <<>> THEN st
    ELSE LET call == Head(tool_calls)
             key == stable_call_key(call)
         IN collect_new_calls(Tail(tool_calls),
               IF key \notin st.seen
               THEN [seen |-> st.seen \cup {key},
                     collected |-> Append(st.collected, call),
                     new_calls |-> Append(st.new_calls, call)]
               ELSE st)

ToolCallInit ==
    /\ tc_pc = "idle"
    /\ seen_call_keys = {}
    /\ collected_calls = <<>>
    /\ tc_chunks = 0
    /\ tc_offered = {}
    /\ tc_repeated = {}
    /\ tc_yielded = <<>>
    /\ tc_message = <<>>

\* lines 109-112: the stream is opened with empty seen_call_keys and
\* collected_calls
tool_stream_begin ==
    /\ tc_pc = "idle"
    /\ tc_pc' = "streaming"
    /\ UNCHANGED <<seen_call_keys, collected_calls, tc_chunks, tc_offered,
                   tc_repeated, tc_yielded, tc_message, dispVars, mapVars,
                   argVars, refVars>>

\* lines 114-147: one chunk; its new_calls are yielded whether or not it
\* carries content or thinking (lines 140-147)
tool_stream_chunk(tool_calls) ==
    /\ tc_pc = "streaming"
    /\ tc_chunks < MaxStreamChunks
    /\ tc_chunks' = tc_chunks + 1
    /\ tc_offered' = tc_offered \cup Range(tool_calls)
    /\ tc_repeated' = tc_repeated \cup
          { tool_calls[i] : i \in { j \in 1..Len(tool_calls) :
                \/ stable_call_key(tool_calls[j]) \in seen_call_keys
                \/ \E k \in 1..(j - 1) :
                      stable_call_key(tool_calls[k]) = stable_call_key(tool_calls[j]) } }
    /\ LET st == collect_new_calls(tool_calls,
                    [seen |-> seen_call_keys, collected |-> collected_calls,
                     new_calls |-> <<>>])
       IN /\ seen_call_keys' = st.seen
          /\ collected_calls' = st.collected
          /\ tc_yielded' = tc_yielded \o st.new_calls
    /\ UNCHANGED <<tc_pc, tc_message, dispVars, mapVars, argVars, refVars>>

\* lines 149-155: the stream is exhausted, the assistant message appended
tool_stream_end ==
    /\ tc_pc = "streaming"
    /\ tc_pc' = "done"
    /\ tc_message' = collected_calls
    /\ UNCHANGED <<seen_call_keys, collected_calls, tc_chunks, tc_offered,
                   tc_repeated, tc_yielded, dispVars, mapVars, argVars, refVars>>

\* ----------------------------------------------------------- specifications
\* Each component runs with the other two at rest.
schedRest == UNCHANGED <<schedVars, capVars>>
sampRest == UNCHANGED sampVars
mgrRest == UNCHANGED mgrVars
coreRest == UNCHANGED <<schedVars, capVars, sampVars, mgrVars>>
cliRest == UNCHANGED cliVars
extRest == UNCHANGED extVars
agRest == UNCHANGED agVars
bufRest == UNCHANGED bufVars
unitRest == UNCHANGED unitVars

\* a quiescent scheduler
SchedIdle ==
    /\ message_queue = <<>> /\ pending_turn = <<>>
    /\ active = TRUE /\ in_sessions = TRUE
    /\ wpc = "get" /\ turn = NoTurn /\ requests = <<>> /\ chunks_left = 0
    /\ stream_enabled = TRUE
    /\ epc = "idle"
    /\ n_sent = 0 /\ n_calls = 0 /\ next_turn_id = 1 /\ n_started = 0
    /\ last_turn = [id |-> 0, completions |-> 1, failed |-> FALSE]
    /\ calls = <<>> /\ owed = {} /\ missed = NoMiss
    /\ CapInit

\* one session: its worker, its senders and its capability updates
UnitInit == DispInit /\ MapInit /\ ArgInit /\ RefInit /\ ToolCallInit

ExtInit == CliInit /\ AgentInit /\ BufInit /\ UnitInit

Init == SchedInit /\ SampInit /\ MgrInit /\ ExtInit

Next ==
    \/ send_message /\ sampRest /\ mgrRest /\ extRest
    \/ \E cat \in Catalogs : initial_capabilities(cat) /\ sampRest /\ mgrRest /\ extRest
    \/ worker_get /\ sampRest /\ mgrRest /\ extRest
    \/ worker_timeout /\ sampRest /\ mgrRest /\ extRest
    \/ prepare_error /\ sampRest /\ mgrRest /\ extRest
    \/ worker_wake /\ sampRest /\ mgrRest /\ extRest
    \/ \E payload \in Payloads : stream_chunk(payload) /\ sampRest /\ mgrRest /\ extRest
    \/ \E payload \in Payloads : sync_response(payload) /\ sampRest /\ mgrRest /\ extRest
    \/ \E cat \in Catalogs, has_text \in BOOLEAN :
          dispatch_request(cat, has_text) /\ sampRest /\ mgrRest /\ extRest
    \/ complete_turn /\ sampRest /\ mgrRest /\ extRest
    \/ model_error /\ sampRest /\ mgrRest /\ extRest
    \/ end_session_begin /\ sampRest /\ mgrRest /\ extRest
    \/ end_session_finish /\ sampRest /\ mgrRest /\ extRest

Spec == Init /\ [][Next]_vars

\* one session with its MCP client, under the event loop's scheduling: a task
\* that can run is run, the dequeue's timeout fires, and the agent's and the
\* tools' replies arrive, so that a turn in progress comes to its end
LiveInit ==
    /\ SchedInit /\ SampInit /\ MgrInit
    /\ CliCreated /\ AgentInit /\ BufInit /\ UnitInit

\* the worker task between turns; LiveTurn is the same task inside a turn
LiveWorker ==
    (worker_get \/ worker_timeout \/ prepare_error \/ worker_wake)
    /\ sampRest /\ mgrRest /\ extRest

LiveTurn ==
    (\/ \E payload \in Payloads : stream_chunk(payload)
     \/ \E payload \in Payloads : sync_response(payload)
     \/ \E has_text \in BOOLEAN : dispatch_request(last_catalog, has_text)
     \/ complete_turn
     \/ model_error)
    /\ sampRest /\ mgrRest /\ extRest

\* the catalog of the server this session is connected to
LiveCatalog == [tools |-> <<"echo">>, prompts |-> <<>>, resources |-> <<>>]

\* _run_client_loop, line 153: the first refresh hands the catalog it found
\* to capability_handler
live_first_refresh ==
    initial_capabilities(LiveCatalog) /\ client_first_refresh(None)

LiveClientLoop ==
    \/ live_first_refresh /\ sampRest /\ mgrRest /\ agRest /\ bufRest /\ unitRest
    \/ client_loop_exit /\ coreRest /\ agRest /\ bufRest /\ unitRest

LiveEnd ==
    (\/ end_session_teardown /\ client_teardown_begin
     \/ end_session_pop /\ client_teardown_finish)
    /\ sampRest /\ mgrRest /\ agRest /\ bufRest /\ unitRest

\* the server's catalog stays as the first refresh found it
LiveNext ==
    \/ send_message /\ sampRest /\ mgrRest /\ extRest
    \/ worker_get /\ sampRest /\ mgrRest /\ extRest
    \/ worker_timeout /\ sampRest /\ mgrRest /\ extRest
    \/ prepare_error /\ sampRest /\ mgrRest /\ extRest
    \/ worker_wake /\ sampRest /\ mgrRest /\ extRest
    \/ \E payload \in Payloads : stream_chunk(payload) /\ sampRest /\ mgrRest /\ extRest
    \/ \E payload \in Payloads : sync_response(payload) /\ sampRest /\ mgrRest /\ extRest
    \/ \E has_text \in BOOLEAN :
          dispatch_request(last_catalog, has_text) /\ sampRest /\ mgrRest /\ extRest
    \/ complete_turn /\ sampRest /\ mgrRest /\ extRest
    \/ model_error /\ sampRest /\ mgrRest /\ extRest
    \/ end_session_begin /\ sampRest /\ mgrRest /\ extRest
    \/ end_session_teardown /\ client_teardown_begin
          /\ sampRest /\ mgrRest /\ agRest /\ bufRest /\ unitRest
    \/ live_first_refresh /\ sampRest /\ mgrRest /\ agRest /\ bufRest /\ unitRest
    \/ client_loop_exit /\ coreRest /\ agRest /\ bufRest /\ unitRest
    \/ end_session_pop /\ client_teardown_finish
          /\ sampRest /\ mgrRest /\ agRest /\ bufRest /\ unitRest

\* weak fairness for each task: the worker (between turns and inside one),
\* the client's connection task, and the end_session call
SpecLive ==
    /\ LiveInit /\ [][LiveNext]_vars
    /\ WF_vars(LiveWorker \/ LiveTurn)
    /\ WF_vars(LiveClientLoop) /\ WF_vars(LiveEnd)

\* the sampling gateway shared by the sessions
SamplingInit == SchedIdle /\ SampInit /\ MgrInit /\ ExtInit

SamplingNext ==
    \/ \E c \in SampleIds, k \in SessionKeys, valid \in BOOLEAN, text_only \in BOOLEAN :
          sample_enter(c, k, valid, text_only) /\ schedRest /\ mgrRest /\ extRest
    \/ \E c \in SampleIds : sample_admit(c) /\ schedRest /\ mgrRest /\ extRest
    \/ \E c \in SampleIds : sample_cancel_waiting(c) /\ schedRest /\ mgrRest /\ extRest
    \/ \E c \in SampleIds, outcome \in Outcomes :
          sample_finish(c, outcome) /\ schedRest /\ mgrRest /\ extRest
    \/ \E k \in SessionKeys : session_deactivate(k) /\ schedRest /\ mgrRest /\ extRest
    \/ \E k \in SessionKeys : session_remove(k) /\ schedRest /\ mgrRest /\ extRest

SpecSampling == SamplingInit /\ [][SamplingNext]_vars

\* the session table and the tasks that create and end sessions
ManagerInit == SchedIdle /\ SampInit /\ MgrInit /\ ExtInit

ManagerNext ==
    \/ \E a \in Callers, k \in SessionKeys :
          create_session_begin(a, k) /\ schedRest /\ sampRest /\ extRest
    \/ \E a \in Callers : create_session_finish(a) /\ schedRest /\ sampRest /\ extRest
    \/ \E a \in Callers : create_session_fail(a) /\ schedRest /\ sampRest /\ extRest
    \/ \E k \in SessionKeys : mgr_end_session_begin(k) /\ schedRest /\ sampRest /\ extRest
    \/ \E p \in ending : mgr_end_session_finish(p) /\ schedRest /\ sampRest /\ extRest

SpecManager == ManagerInit /\ [][ManagerNext]_vars

\* the manager at application exit: one caller still creating sessions,
\* end_session calls from outside, and shutdown
ShutdownInit == SchedIdle /\ SampInit /\ MgrInit /\ ExtInit

ShutdownNext ==
    \/ \E k \in SessionKeys : create_session_begin(1, k) /\ schedRest /\ sampRest /\ extRest
    \/ create_session_finish(1) /\ schedRest /\ sampRest /\ extRest
    \/ create_session_fail(1) /\ schedRest /\ sampRest /\ extRest
    \/ \E k \in SessionKeys : mgr_end_session_begin(k) /\ schedRest /\ sampRest /\ extRest
    \/ \E p \in ending : mgr_end_session_finish(p) /\ schedRest /\ sampRest /\ extRest
    \/ shutdown_begin /\ schedRest /\ sampRest /\ extRest
    \/ \E p \in shut.todo : shutdown_child_start(p) /\ schedRest /\ sampRest /\ extRest
    \/ \E p \in shut.running, ok \in BOOLEAN :
          shutdown_child_finish(p, ok) /\ schedRest /\ sampRest /\ extRest
    \/ shutdown_return /\ schedRest /\ sampRest /\ extRest

SpecShutdown == ShutdownInit /\ [][ShutdownNext]_vars

\* one MCP client: its connection task, its callers, the server's notices
ClientInit == SchedIdle /\ SampInit /\ MgrInit /\ ExtInit

ClientNext ==
    \/ client_initialize /\ coreRest /\ agRest /\ bufRest /\ unitRest
    \/ client_initialize_return /\ coreRest /\ agRest /\ bufRest /\ unitRest
    \/ client_initialize_timeout /\ coreRest /\ agRest /\ bufRest /\ unitRest
    \/ client_connect /\ coreRest /\ agRest /\ bufRest /\ unitRest
    \/ \E ok_session \in BOOLEAN : client_connect_fail(ok_session) /\ coreRest /\ agRest /\ bufRest /\ unitRest
    \/ \E fail_at \in FailPoints : client_first_refresh(fail_at) /\ coreRest /\ agRest /\ bufRest /\ unitRest
    \/ \E l \in Lists : client_notify(l) /\ coreRest /\ agRest /\ bufRest /\ unitRest
    \/ \E req \in RpcRequests, op_fails \in BOOLEAN, fail_at \in FailPoints :
          execute_json_rpc(req, op_fails, fail_at) /\ coreRest /\ agRest /\ bufRest /\ unitRest
    \/ client_teardown_begin /\ coreRest /\ agRest /\ bufRest /\ unitRest
    \/ client_loop_exit /\ coreRest /\ agRest /\ bufRest /\ unitRest
    \/ client_teardown_finish /\ coreRest /\ agRest /\ bufRest /\ unitRest

SpecClient == ClientInit /\ [][ClientNext]_vars

\* one agent: its history, its system prompt, its response generations
AgentSpecInit ==
    /\ SchedIdle /\ SampInit /\ MgrInit /\ CliInit /\ BufInit /\ UnitInit
    /\ AgentFields /\ thinking_enabled \in BOOLEAN

AgentNext ==
    \/ \E template \in Templates :
          set_system_prompt(template) /\ coreRest /\ cliRest /\ bufRest /\ unitRest
    \/ agent_reset /\ coreRest /\ cliRest /\ bufRest /\ unitRest
    \/ \E stream \in BOOLEAN, new_messages \in NewMessages :
          generate_begin(stream, new_messages) /\ coreRest /\ cliRest /\ bufRest /\ unitRest
    \/ generate_fails /\ coreRest /\ cliRest /\ bufRest /\ unitRest
    \/ \E chunk_content \in ContentChunks, chunk_thinking \in ThinkingChunks :
          agent_stream_chunk(chunk_content, chunk_thinking) /\ coreRest /\ cliRest /\ bufRest /\ unitRest
    \/ agent_stream_end /\ coreRest /\ cliRest /\ bufRest /\ unitRest
    \/ \E content \in SyncContents, thinking \in ThinkingChunks :
          agent_sync_response(content, thinking) /\ coreRest /\ cliRest /\ bufRest /\ unitRest

SpecAgent == AgentSpecInit /\ [][AgentNext]_vars

\* one stream buffer key and the texts handed to it
BufferInit == SchedIdle /\ SampInit /\ MgrInit /\ ExtInit

BufferNext ==
    \/ \E content \in Texts : get_delta(content) /\ coreRest /\ cliRest /\ agRest /\ unitRest
    \/ buffer_clear /\ coreRest /\ cliRest /\ agRest /\ unitRest

SpecBuffer == BufferInit /\ [][BufferNext]_vars

\* the handler of one tool payload, the catalog arriving at any time
DispatchInit == SchedIdle /\ SampInit /\ MgrInit /\ ExtInit

DispatchNext ==
    \/ \E cat \in Catalogs :
          initial_capabilities(cat) /\ sampRest /\ mgrRest /\ extRest
    \/ \E payload \in DispatchPayloads :
          handle_tool_payload(payload)
          /\ sampRest /\ mgrRest /\ cliRest /\ agRest /\ bufRest
    \/ \E cat \in Catalogs, has_text \in BOOLEAN :
          execute_single_request_step(cat, has_text)
          /\ sampRest /\ mgrRest /\ cliRest /\ agRest /\ bufRest

SpecDispatch == DispatchInit /\ [][DispatchNext]_vars

\* the tool mapper alone, updated with any lists in any order
MapperInit == SchedIdle /\ SampInit /\ MgrInit /\ ExtInit

MapperNext ==
    \E cat \in MapperCatalogs :
        mapper_update(cat)
        /\ UNCHANGED schedVars /\ sampRest /\ mgrRest
        /\ cliRest /\ agRest /\ bufRest

SpecMapper == MapperInit /\ [][MapperNext]_vars

\* the arguments coercer alone, on every kind of value
CoerceInit == SchedIdle /\ SampInit /\ MgrInit /\ ExtInit

CoerceNext ==
    \/ \E arguments \in ArgumentValues :
          coerce_arguments(arguments)
          /\ coreRest /\ cliRest /\ agRest /\ bufRest
    \/ coerce_again /\ coreRest /\ cliRest /\ agRest /\ bufRest

SpecCoerce == CoerceInit /\ [][CoerceNext]_vars

\* one turn from its tool payload to its commit step, send_message arriving
\* at any await in between
TurnInit == DispatchInit

TurnNext ==
    \/ \E cat \in Catalogs :
          initial_capabilities(cat) /\ sampRest /\ mgrRest /\ extRest
    \/ \E payload \in DispatchPayloads :
          handle_tool_payload(payload)
          /\ sampRest /\ mgrRest /\ cliRest /\ agRest /\ bufRest
    \/ \E cat \in Catalogs, has_text \in BOOLEAN :
          execute_single_request_step(cat, has_text)
          /\ sampRest /\ mgrRest /\ cliRest /\ agRest /\ bufRest
    \/ process_turn_commit /\ sampRest /\ mgrRest /\ cliRest /\ agRest /\ bufRest
    \/ send_message /\ sampRest /\ mgrRest /\ extRest

SpecTurn == TurnInit /\ [][TurnNext]_vars

\* a connected client: refreshes one after another, list-changed
\* notifications arriving at any await
RefreshInit ==
    /\ SchedIdle /\ SampInit /\ MgrInit
    /\ CliCreated /\ AgentInit /\ BufInit /\ UnitInit

RefreshNext ==
    \/ refresh_begin /\ coreRest /\ agRest /\ bufRest
    \/ \E ok \in BOOLEAN : refresh_fetched(ok) /\ coreRest /\ agRest /\ bufRest
    \/ refresh_handler_done /\ coreRest /\ agRest /\ bufRest
    \/ \E l \in Lists : message_handler(l) /\ coreRest /\ agRest /\ bufRest

SpecRefresh == RefreshInit /\ [][RefreshNext]_vars

\* the tool calls of one streamed response
ToolCallsInit == SchedIdle /\ SampInit /\ MgrInit /\ ExtInit

ToolCallsNext ==
    \/ tool_stream_begin /\ coreRest /\ cliRest /\ agRest /\ bufRest
    \/ \E tool_calls \in ChunkCalls :
          tool_stream_chunk(tool_calls)
          /\ coreRest /\ cliRest /\ agRest /\ bufRest
    \/ tool_stream_end /\ coreRest /\ cliRest /\ agRest /\ bufRest

SpecToolCalls == ToolCallsInit /\ [][ToolCallsNext]_vars

\* -------------------------------------------------------------- properties
Processing == wpc \in {"generate", "dispatch"}

\* C1: the worker handles one turn at a time and in enqueue order: the turn
\* in progress is the n-th turn ever enqueued when it is the n-th turn
\* dequeued, and the turns still queued are the following ones, in order.
C1_TurnsInEnqueueOrder ==
    /\ Processing => turn.id = n_started
    /\ ~Processing => turn = NoTurn /\ last_turn.id = n_started
    /\ \A i \in 1..Len(message_queue) : message_queue[i].id = n_started + i
    /\ next_turn_id = n_started + Len(message_queue) + 1

C1_Witness ==
    /\ Processing
    /\ n_started >= 2
    /\ Len(message_queue) >= 1

\* C2: every turn the worker has dequeued and returned from had
\* on_agent_completion fired exactly once.
C2_OneCompletionPerTurn ==
    last_turn.id > 0 => last_turn.completions = 1

\* the mapping error covering call c is among these entries
CoveredIn(entries, c) ==
    \E i \in 1..Len(entries) :
        entries[i].kind = "maperr" /\ entries[i].role = "tool" /\ c.cid \in entries[i].ref

\* the mapping error covering call c is part of the first turn enqueued
\* after the call was emitted (still pending_turn while not yet enqueued)
InNextTurn(c) ==
    IF next_turn_id = c.next
    THEN CoveredIn(pending_turn, c)
    ELSE \E i \in 1..Len(message_queue) :
            message_queue[i].id = c.next /\ CoveredIn(message_queue[i].entries, c)

AwaitingDispatch(c) == \E i \in 1..Len(requests) : requests[i].call = c.cid

C4_SummaryInNextTurn == missed.absent = {}

\* C5: after a capability change, the next turn the worker dequeues has the
\* summary entry as its first entry.
C5_SummaryIsFirstEntry == ~missed.not_first

\* C6: no turn on the queue, and no turn handed to the worker, is empty.
C6_NoEmptyTurnQueued ==
    /\ \A i \in 1..Len(message_queue) : Len(message_queue[i].entries) >= 1
    /\ Processing => Len(turn.entries) >= 1

C6_Witness ==
    /\ Len(message_queue) >= 1
    /\ pending_turn = <<>>
    /\ last_turn.id >= 1

\* C8: the agent's active tool specs are the provider tools built from the
\* catalog last passed to update_capabilities.
C8_ActiveToolsFromLatestCatalog ==
    active_tools = build_provider_tools(SeqFilterKeys(last_catalog.tools, {}),
                                        SeqFilterKeys(last_catalog.resources, {}))

C8_Witness ==
    /\ n_caps >= 1
    /\ last_catalog # NoCatalog
    /\ Len(active_tools) >= 1

\* a call that reached the gateway's counters: rejected, admitted or ended
Accounted(c) == spc[c] \in {"rejected", "calling"} \cup Outcomes

\* C7: the session table holds at most one session per key, and a
\* create_session call that found its key in the table returned the session
\* that was there and built nothing.
C7_OneSessionPerKey ==
    /\ \A k \in SessionKeys : Cardinality({p \in sessions : p[1] = k}) <= 1
    /\ \A a \in Callers :
          ccall[a].existed =>
              /\ cpc[a] = "returned"
              /\ ccall[a].returned = ccall[a].existing
              /\ ~ccall[a].created

C7_Witness ==
    \E a \in Callers :
        /\ ccall[a].existed
        /\ cpc[a] = "returned"
        /\ ccall[a].returned >= 1
        /\ session_exists(sessions, ccall[a].key)

Calling == {c \in SampleIds : spc[c] = "calling"}

\* C9: at most max_concurrency model calls are in progress, and _inflight
\* counts them and never exceeds max_concurrency.
C9_AtMostMaxConcurrency ==
    /\ Cardinality(Calling) <= max_concurrency
    /\ inflight = Cardinality(Calling)
    /\ inflight <= max_concurrency

C9_Witness ==
    /\ Cardinality(Calling) = max_concurrency
    /\ \E c \in SampleIds : spc[c] = "waiting"
    /\ \E c, d \in Calling : skey[c] # skey[d]

\* C10: _inflight + _rejected + _completed equals the number of sample()
\* calls the gateway has counted so far (rejected on entry, admitted, or
\* ended), every outcome adding to exactly one of _completed or _rejected.
C10_CountersBalance ==
    inflight + rejected + completed =
        Cardinality({c \in SampleIds : Accounted(c)})

\* C11: execute_json_rpc never raises to its caller: for every request and
\* every failure of the operation or of the capability refresh it returns
\* the result or one of the error strings.
C11_ExecuteNeverRaises ==
    /\ ~cl_rpc.raised
    /\ cl_rpc.value \in {None, "result", "operation error text",
                         "list error text", "not initialized",
                         "missing method", "unknown method", "JSON-RPC error"}

C11_Witness == cl_rpc = Returned("JSON-RPC error") /\ cl_session

\* C12: a failed turn never terminates the worker: the worker loop is left
\* only when session.active is false, and after a turn that ended with an
\* exception the worker is back in its loop (or asleep before it), ready for
\* later turns.
C12_WorkerSurvivesFailure ==
    /\ wpc = "closed" => ~active
    /\ (last_turn.failed /\ active) => wpc \in {"get", "sleep", "generate", "dispatch"}
    /\ wpc = "sleep" => last_turn.failed

C12_Witness ==
    /\ last_turn.failed
    /\ active
    /\ Processing
    /\ turn.id > last_turn.id

\* the step in which _process_turn is left through its except clause
TurnFails == Processing /\ ~Processing' /\ last_turn'.id = turn.id
                 /\ last_turn'.failed

\* the step in which _prepare_turn_messages raised
BuildFails == wpc = "get" /\ wpc' = "sleep"

C14_FailureLeavesHistory == gpc = "failed" => history = hist_before

SystemCount(h) == Cardinality({i \in 1..Len(h) : is_system_message(h[i])})

\* C17: once set_system_prompt was called with a non-empty text, the first
\* history entry is a system message and it is the only one, whatever
\* add_message, set_system_prompt, reset and generations followed; it
\* carries the current template when that is non-empty; and a reset that
\* removes entries leaves exactly that system message.
C17_SystemMessageFirst ==
    /\ [](prompt_set =>
            /\ history # <<>>
            /\ is_system_message(history[1])
            /\ SystemCount(history) = 1
            /\ system_prompt_template # <<>> =>
                  history[1].content = system_prompt_template)
    /\ [][Len(history') < Len(history) =>
            history' = IF prompt_set THEN <<history[1]>> ELSE <<>>]_vars

C17_Witness ==
    /\ prompt_set
    /\ n_gens >= 1
    /\ history = <<Msg("system", system_prompt_template)>>

\* what the agent has emitted of the response so far: the concatenation of
\* its content deltas, resp. of its thinking chunks
EmittedContent == accumulated_content
EmittedThinking == accumulated_thinking

\* C19: in the streaming path every on_agent_response carries the
\* concatenation of the content deltas emitted so far, and on_agent_completion
\* carries the trimmed concatenation of all of them, the content of the
\* assistant history message.
C19_ResponseIsCumulative ==
    g_stream =>
        /\ cb_response.fired => cb_response.arg = cb_response.emitted
        /\ cb_completion.fired =>
              cb_completion.content = OrNone(strip(EmittedContent))

\* C20: in the streaming path every on_agent_thinking carries the thinking
\* chunks produced so far, each once, and on_agent_completion carries the
\* full thinking of the turn.
C20_ThinkingIsCumulative ==
    g_stream =>
        /\ cb_thinking.fired => cb_thinking.arg = cb_thinking.emitted
        /\ cb_completion.fired =>
              cb_completion.thinking = OrNone(EmittedThinking)

\* C18: for a key that started with no buffer, while every text handed to
\* get_delta extends the one before, the non-null deltas returned so far
\* join to the last text; a call with a text shorter than the buffer stores
\* that text and returns it whole with first = false.
C18_DeltasSumToContent ==
    /\ (sb_ret.called /\ sb_mono) => sb_sum = sb_ret.content
    /\ sb_ret.shorter =>
          /\ sb_buffer = [present |-> TRUE, text |-> sb_ret.content]
          /\ sb_ret.delta = sb_ret.content
          /\ sb_ret.first = FALSE

C18_Witness ==
    /\ sb_ret.called /\ sb_mono
    /\ Len(sb_ret.content) = MaxText
    /\ sb_ret.delta # None /\ Len(sb_ret.delta) < Len(sb_ret.content)

\* C16: shutdown never raises, and when it has returned every session that
\* was in the table when it was called is out of the table unless ending it
\* failed, and every session that a child's end_session ended normally is
\* out of the table with its worker gone.
C16_ShutdownEndsAll ==
    /\ shut.pc # "raised"
    /\ shut.pc = "returned" =>
          /\ \A p \in shut.snapshot : p \in sessions => p \in shut.failed
          /\ \A p \in shut.ended : p \notin sessions /\ p[2] \notin workers

C16_Witness ==
    /\ shut.pc = "returned"
    /\ shut.ended # {} /\ shut.failed # {}
    /\ Cardinality(shut.snapshot) = 2

\* C15: an end_session call that found the session and awaits its worker
\* eventually completes, and once it has completed the worker has exited,
\* the MCP client is closed with no session, and the key is out of the table.
C15_EndSessionCompletes ==
    /\ (epc = "awaiting") ~> (epc = "done")
    /\ [](epc = "done" =>
            /\ wpc = "closed"
            /\ cl_closed /\ ~cl_session
            /\ ~in_sessions)

C15_Witness ==
    /\ epc = "done"
    /\ n_started >= 1 /\ last_turn.id = n_started
    /\ message_queue # <<>>

\* C21: on_agent_thinking is not invoked when the agent's configuration has
\* thinking_enabled = false, in the streaming and in the synchronous path.
C21_NoThinkingWhenDisabled == ~thinking_enabled => ~cb_thinking.fired

\* the log of n requests handled one after the other
RECURSIVE OneAtATime(_)
OneAtATime(cids) ==
    IF cids = <<>> THEN <<>>
    ELSE << [ev |-> "tool_call", call |-> Head(cids)],
            [ev |-> "dispatch", call |-> Head(cids)],
            [ev |-> "result", call |-> Head(cids)] >> \o OneAtATime(Tail(cids))

EventCalls(ev) ==
    LET sel == SelectSeq(d_log, LAMBDA e : e.ev = ev)
    IN [i \in 1..Len(sel) |-> sel[i].call]

PendingResults ==
    LET sel == SelectSeq(pending_turn, LAMBDA e : e.kind = "result")
    IN [i \in 1..Len(sel) |-> CHOOSE c \in sel[i].ref : TRUE]

C23_NoTaskAfterFailedInitialize ==
    cl_init = "false" => cl_loop \in {"none", "exited"}

\* C24: a sample() call for a session that is missing or not active, or with
\* a message that is not text, is rejected on entry with an error value: it
\* never waits for a permit and never calls the model, and the step that
\* rejects it leaves the semaphore and _inflight as they were.
C24_RejectedBeforeAdmission ==
    /\ [](\A c \in SampleIds :
            sbad[c] => (spc[c] = "rejected" /\ sret[c] = "ErrorData"))
    /\ [][\A c \in SampleIds :
            (spc[c] # "rejected" /\ spc'[c] = "rejected") =>
                (spc[c] = "new" /\ sem' = sem /\ inflight' = inflight)]_vars

C24_Witness ==
    \E c, d, e \in SampleIds :
        /\ sbad[c] /\ sess[skey[c]] = "absent" /\ spc[c] = "rejected"
        /\ sbad[d] /\ sess[skey[d]] = "active" /\ spc[d] = "rejected"
        /\ sret[d] = "ErrorData"
        /\ spc[e] = "calling"

\* C25: the permits held are those of the calls in progress, whatever the
\* way the earlier calls ended; a timed out call gave its caller "Sampling
\* timed out", a cancelled one raised the cancellation; when no call waits
\* or runs, every permit is free and _inflight is 0.
C25_PermitReleasedOnEveryOutcome ==
    /\ sem + Cardinality(Calling) = max_concurrency
    /\ \A c \in SampleIds :
          /\ spc[c] = "timeout" => sret[c] = "Sampling timed out"
          /\ spc[c] = "cancelled" => sret[c] = "CancelledError raised"
          /\ spc[c] = "ok" => sret[c] = "CreateMessageResult"
    /\ (\A c \in SampleIds : spc[c] \notin {"waiting", "calling"}) =>
          (sem = max_concurrency /\ inflight = 0)

C25_Witness ==
    /\ \A c \in SampleIds : spc[c] \in Outcomes
    /\ \A o \in {"ok", "timeout", "cancelled"} : \E c \in SampleIds : spc[c] = o
    /\ sem = max_concurrency

\* C26: a second update with the same tools, prompts and resources returns
\* no summary and leaves the provider tool specs as the first call left them.
C26_UpdateRoundTrip ==
    m_same =>
        /\ m_ret = NoSummary
        /\ Len(provider_tools) = Len(m_before)
        /\ \A i \in 1..Len(provider_tools) : provider_tools[i] = m_before[i]

\* the repeated lists held a repeated key and a resource named like a tool
C26_Witness ==
    /\ m_same
    /\ m_args[1].tools = <<"echo", "echo">>
    /\ m_args[1].resources = <<"echo">>
    /\ Len(provider_tools) = 2
    /\ m_before = provider_tools

\* C27: the arguments coercer always returns a mapping, and applied to its
\* own result it returns that same mapping.
C27_CoercerIdempotent ==
    /\ a_step >= 1 => a_once.kind = "dict"
    /\ a_step = 2 =>
          /\ a_twice.kind = "dict"
          /\ Len(a_twice.items) = Len(a_once.items)
          /\ \A i \in 1..Len(a_once.items) : a_twice.items[i] = a_once.items[i]

\* a JSON text that parses to a scalar was wrapped, and the wrapping was
\* handed in again
C27_Witness ==
    /\ a_step = 2
    /\ a_in = PyStr("3")
    /\ a_once.items = << <<"_", PyValue("int", "3")>> >>
    /\ a_twice = a_once

\* the results and mapping errors among the entries of a turn
ToolEntries(entries) ==
    SelectSeq(entries, LAMBDA e : e.kind \in {"result", "maperr"})

\* C28: the results and mapping errors of one turn reach the queue together,
\* as one turn and in dispatch order, whenever send_message is called: no
\* queued turn holds any of them before the commit step, and after it
\* exactly one queued turn holds them all.
C28_ResultsCommittedTogether ==
    LET holders == { i \in 1..Len(message_queue) :
                        ToolEntries(message_queue[i].entries) # <<>> }
    IN /\ ~d_done => holders = {}
       /\ d_done =>
            /\ Cardinality(holders) <= 1
            /\ ToolEntries(pending_turn) = <<>>
            /\ \A i \in holders :
                 LET results == SelectSeq(message_queue[i].entries,
                                          LAMBDA e : e.kind = "result")
                 IN [k \in 1..Len(results) |->
                        CHOOSE c \in results[k].ref : TRUE]
                    = EventCalls("result")

\* call c of the turn has its result or its mapping error in a queued turn
AnsweredInQueue(c) ==
    \E i \in 1..Len(message_queue) :
        /\ message_queue[i].id >= c.next
        /\ \E j \in 1..Len(message_queue[i].entries) :
              /\ message_queue[i].entries[j].kind \in {"result", "maperr"}
              /\ c.cid \in message_queue[i].entries[j].ref

\* the step in which _process_turn returns to the loop
TurnEnds == Processing /\ ~Processing'

\* the last turn was answered without a tool call
PlainAnswer ==
    /\ ~Processing
    /\ last_turn.id >= 1 /\ last_turn.id = n_started
    /\ last_turn.completions = 1
    /\ calls = <<>>

C30_RefreshFetchesExactlyDirty ==
    /\ [](rf_round = 1 => \A l \in Lists : rf_start[l])
    /\ []((rf_pc = "idle" /\ rf_round >= 1) =>
            \A l \in Lists :
               /\ rf_start[l] => (l \in rf_fetched /\ l \in rf_cleared)
               /\ l \in rf_fetched <=> l \in rf_cleared
               /\ l \notin rf_fetched => cl_cache[l] # rf_round)
    /\ [][(\E l \in Lists : ~cl_changed[l] /\ cl_changed'[l]) =>
            /\ cl_cache' = cl_cache
            /\ rf_fetched' = rf_fetched /\ rf_pc' = rf_pc
            /\ Cardinality({l \in Lists : cl_changed'[l] # cl_changed[l]}) = 1]_vars

\* C31: update returns a summary exactly when the call added or removed a
\* tool, a prompt or a resource, and no summary when the catalog is as the
\* call before left it.
C31_SummaryIffCatalogChanged ==
    m_args # <<>> => (m_ret # NoSummary <=> m_changed # {})

\* what a call resolves to in a catalog: a tool name, a resource URI (by
\* the name, else by arguments.uri), or nothing
ResolvesTo(c, cat) ==
    LET tool_names == Range(cat.tools) \ {""}
        resource_uris == Range(cat.resources) \ {""}
    IN IF c.name = "" THEN [kind |-> None, key |-> None]
       ELSE IF c.name \in resource_uris THEN [kind |-> "resource", key |-> c.name]
       ELSE IF c.name \in tool_names THEN [kind |-> "tool", key |-> c.name]
       ELSE IF c.uri \in resource_uris THEN [kind |-> "resource", key |-> c.uri]
       ELSE [kind |-> None, key |-> None]

\* C32: a call that resolves to a tool becomes tools/call with the name and
\* the arguments, one that resolves to a resource becomes resources/read
\* with the URI alone, and one that resolves to neither yields no request
\* and is never dispatched.
C32_TranslationByKind ==
    LET resolved == [i \in 1..Len(d_payload) |-> ResolvesTo(d_payload[i], d_catalog)]
        mapped == SelectSeq([i \in 1..Len(d_payload) |-> i],
                            LAMBDA i : resolved[i].kind # None)
    IN /\ Len(d_requests) = Len(mapped)
       /\ \A k \in 1..Len(mapped) :
            /\ k <= Len(d_requests)
            /\ d_requests[k].call = mapped[k]
            /\ d_requests[k].key = resolved[mapped[k]].key
            /\ resolved[mapped[k]].kind = "tool" =>
                  (d_requests[k].method = "tools/call" /\ d_requests[k].args)
            /\ resolved[mapped[k]].kind = "resource" =>
                  (d_requests[k].method = "resources/read" /\ ~d_requests[k].args)
       /\ \A e \in Range(d_log) :
            e.ev = "dispatch" =>
               (e.call \in 1..Len(d_payload) /\ resolved[e.call].kind # None)

\* a payload with a tool call, a call that reads a resource through
\* arguments.uri and a call that resolves to nothing has been handled and
\* its two requests dispatched
C32_Witness ==
    /\ Len(d_payload) = 3
    /\ d_payload[1].name = "echo"
    /\ d_payload[2].name = "ech"
    /\ d_payload[3].name = "read"
    /\ Len(d_requests) = 2
    /\ d_requests[2].method = "resources/read"
    /\ requests = <<>> /\ d_step = 0
    /\ Len(EventCalls("dispatch")) = 2

\* the mapping a call's arguments denote, whatever the order of its keys
AsMapping(call) == <<call.name, Range(call.arguments)>>

\* how many calls of a list denote the mapping m
Occurrences(list, m) == Cardinality({i \in 1..Len(list) : AsMapping(list[i]) = m})

\* C33: within one streamed response every distinct tool call (the same
\* whatever the order of its keys, different when its arguments differ) is
\* yielded exactly once however often the model sends it, and the
\* assistant message appended at the end of the stream holds each once.
C33_EachCallEmittedOnce ==
    LET offered == {AsMapping(c) : c \in tc_offered}
    IN /\ \A m \in offered : Occurrences(tc_yielded, m) = 1
       /\ \A i \in 1..Len(tc_yielded) : AsMapping(tc_yielded[i]) \in offered
       /\ tc_pc = "done" =>
            /\ \A m \in offered : Occurrences(tc_message, m) = 1
            /\ Len(tc_message) = Cardinality(offered)

\* the model sent a call, a call with other arguments, and the first call
\* again with its keys in the other order; the stream has ended
C33_Witness ==
    /\ tc_pc = "done"
    /\ [name |-> "echo", arguments |-> << <<"b", "1">>, <<"a", "1">> >>] \in tc_repeated
    /\ Len(tc_message) = 2
    /\ tc_message[1].arguments = << <<"a", "1">>, <<"b", "1">> >>
    /\ tc_message[2].arguments = << <<"a", "2">> >>

\* the turn put on the queue by this step, if any
PutEntries ==
    IF next_turn_id' = next_turn_id + 1 /\ message_queue' # <<>>
    THEN message_queue'[Len(message_queue')].entries
    ELSE <<>>

\* C34: no entry appended to pending_turn is discarded: an entry that
\* leaves pending_turn leaves it into the turn enqueued by the same step,
\* whatever the interleaving of send_message, capability_handler, the
\* commit at the end of a turn and the worker's dequeue.
C34_NoPendingEntryDiscarded ==
    [][\A i \in 1..Len(pending_turn) :
          \/ \E j \in 1..Len(pending_turn') : pending_turn'[j] = pending_turn[i]
          \/ \E j \in 1..Len(PutEntries) : PutEntries[j] = pending_turn[i]]_vars

\* C35: a list-changed notification is never lost: a clear dirty flag
\* means that no notification for the list has arrived since the last fetch
\* of it began, so every notified list is fetched again by the next refresh.
C35_NotificationNeverLost ==
    \A l \in Lists : ~cl_changed[l] => l \notin rf_late

\* C36: the initial capability snapshot is delivered before the worker of
\* a created session processes its first turn: once a turn has been
\* dequeued, the first refresh has handed the server's lists to
\* capability_handler and the agent's active tools are built from them.
C36_SnapshotBeforeFirstTurn ==
    n_started >= 1 =>
        /\ initial_refresh
        /\ cl_loop # "refreshing"
        /\ active_tools = build_provider_tools(SeqFilterKeys(LiveCatalog.tools, {}),
                                               SeqFilterKeys(LiveCatalog.resources, {}))

\* C37: concurrent create_session calls for one key leave a single session:
\* every started worker loop belongs to a session that the session table
\* holds.
C37_NoOrphanWorker == \A w \in workers : \E p \in sessions : p[2] = w

\* C38: every message that send_message accepted is eventually taken up by
\* the session worker in a turn, also while end_session runs for the same
\* session: the i-th accepted message leads to the i-th started turn.
C38_AcceptedMessageProcessed ==
    \A i \in 1..MaxSends : (n_sent >= i) ~> (n_started >= i)

\* C39: a sampling model call starts only for a session that is in the
\* manager and active at that moment: in every step in which a request
\* begins its model call, its session is active.
C39_CallStartsForActiveSession ==
    [][\A c \in SampleIds :
          (spc[c] # "calling" /\ spc'[c] = "calling") =>
              sess[skey'[c]] = "active"]_vars

\* C40: after every get_delta call the text stored for the key is the
\* content the call was given (the empty text while no buffer exists), also
\* for a content as long as the buffer but different from it.
C40_BufferEqualsContent ==
    sb_ret.called =>
        (IF sb_buffer.present THEN sb_buffer.text ELSE <<>>) = sb_ret.content

====
